---- MODULE Spec2Model ----
(***************************************************************************)
(* OpoBot: the scheduler of automatic mail searches.                       *)
(*                                                                         *)
(* services/scheduler_service.py keeps one SchedulerService object per     *)
(* owner: the ProfileManager builds one when the main window is built      *)
(* (gui/profile_manager.py:33) and every SchedulerModal builds its own     *)
(* (gui/scheduler_modal.py:24).  Each object has its own is_running flag,  *)
(* current_config and loop thread; the trigger list (schedule.jobs of the  *)
(* schedule library) is one list for the whole process.                    *)
(*                                                                         *)
(* Threads of the model: the Tk main thread (button handlers), the save    *)
(* thread of the modal, one polling loop thread per started object, and    *)
(* one worker thread per job run.  A service call is one step, except      *)
(* stop_scheduler, whose join blocks the caller until the loop thread of   *)
(* the object has left its loop (the loop sleeps 1 s per iteration, line   *)
(* 402, the join waits 3 s, line 153).  One iteration of the polling loop  *)
(* (the is_running test and schedule.run_pending()) is one step.           *)
(***************************************************************************)
EXTENDS Integers, Sequences, FiniteSets, TLC

\* ------------------------------------------------------------------ bounds
\* SchedulerService objects ever built: object 1 is the ProfileManager's,
\* objects 2..MaxObjects are built by successive SchedulerModal windows.
MaxObjects == 2
\* Worker threads of scheduled job runs that exist at the same time.
MaxRuns == 1

\* Job runs followed statement by statement in one behaviour.
MaxJobs == 1

PM == 1
Objects == 1..MaxObjects
RunIds == 1..MaxRuns

\* ------------------------------------------------------- configurations
\* A configuration is a Python dict, modelled as a function whose DOMAIN is
\* the set of keys present.  None is NoneConfig.
NoneConfig == [none |-> TRUE]

Has(c, k) == k \in DOMAIN c

Get(c, k, d) == IF k \in DOMAIN c THEN c[k] ELSE d

IsNone(c) == Has(c, "none")

\* datetime.strptime(time_str, "%H:%M") accepts one- and two-digit fields in
\* range; "25:00" and "" raise ValueError.
StrptimeOK(t) == t \in {"09:00", "14:30", "9:5"}

\* schedule's Job.at() accepts only two-digit HH:MM (ScheduleValueError for
\* "9:5").
AtOK(t) == t \in {"09:00", "14:30"}

valid_days == {"monday", "tuesday", "wednesday", "thursday", "friday", "saturday", "sunday"}

\* _clean_string: the typographic replacements, then
\* text.encode('ascii', 'ignore').decode('ascii').  In the strings of the
\* model '#' stands for one non-ASCII character (it is dropped).
_clean_string(text) ==
    CASE text = "daily#" -> "daily"
      [] text = "A#o" -> "Ao"
      [] text = "#" -> ""
      [] OTHER -> text

\* _clean_config: strings and the string items of lists are cleaned, other
\* values are kept.
_clean_config(config) ==
    [k \in DOMAIN config |->
        IF k \in {"type", "time", "unit"} THEN _clean_string(config[k])
        ELSE IF k = "days" THEN [i \in DOMAIN config[k] |-> _clean_string(config[k][i])]
        ELSE config[k]]

\* _validate_config with its early returns.
_validate_config(config) ==
    /\ Has(config, "type")
    /\ Has(config, "enabled")
    /\ LET schedule_type == config["type"] IN
       /\ schedule_type \in {"daily", "weekly"} =>
             /\ Has(config, "time")
             /\ StrptimeOK(config["time"])
       /\ schedule_type = "weekly" =>
             /\ Has(config, "days")
             /\ \A i \in DOMAIN config["days"] : config["days"][i] \in valid_days
       /\ schedule_type = "interval" =>
             /\ Has(config, "interval")
             /\ Has(config, "unit")
             /\ config["interval"] > 0
             /\ config["unit"] \in {"minutes", "hours"}

\* ------------------------------------------------------------- triggers
\* One entry of schedule.jobs: schedule.every(interval).<unit>, .at(at_time),
\* the weekday (start_day) of a weekly entry; due is "now >= next_run".
Job(unit, interval, at_time, start_day) ==
    [unit |-> unit, interval |-> interval, at_time |-> at_time,
     start_day |-> start_day, due |-> FALSE]

RECURSIVE WeeklyJobs(_, _)
WeeklyJobs(days, time_str) ==
    IF days = <<>> THEN <<>>
    ELSE LET day == Head(days) IN
         (IF day \in valid_days THEN <<Job("weeks", 1, time_str, day)>> ELSE <<>>)
         \o WeeklyJobs(Tail(days), time_str)

\* The body of _configure_schedule after schedule.clear(): the entries added
\* to the (emptied) list, and the value returned.  An at() that raises is
\* caught by the except of _configure_schedule, which returns False.
ConfiguredJobs(config) ==
    LET schedule_type == Get(config, "type", "") IN
    IF schedule_type = "daily" THEN
        LET time_str == Get(config, "time", "09:00") IN
        IF AtOK(time_str) THEN [ok |-> TRUE, jobs |-> <<Job("days", 1, time_str, "")>>]
        ELSE [ok |-> FALSE, jobs |-> <<>>]
    ELSE IF schedule_type = "weekly" THEN
        LET time_str == Get(config, "time", "09:00")
            days == Get(config, "days", <<"monday">>)
            added == WeeklyJobs(days, time_str) IN
        IF added = <<>> THEN [ok |-> TRUE, jobs |-> <<>>]
        ELSE IF AtOK(time_str) THEN [ok |-> TRUE, jobs |-> added]
        ELSE [ok |-> FALSE, jobs |-> <<>>]
    ELSE IF schedule_type = "interval" THEN
        LET interval == Get(config, "interval", 60)
            unit == Get(config, "unit", "minutes") IN
        IF unit \in {"minutes", "hours"}
        THEN [ok |-> TRUE, jobs |-> <<Job(unit, interval, "", "")>>]
        ELSE [ok |-> TRUE, jobs |-> <<>>]
    ELSE [ok |-> TRUE, jobs |-> <<>>]

\* ------------------------------------------------------------------ state
VARIABLES
    file_config,       \* config/scheduler_config.json: a configuration or NoneConfig
    current_config,    \* per object: self.current_config
    is_running,        \* per object: self.is_running
    scheduler_thread,  \* per object: self.scheduler_thread: "none", "alive", "dead"
    jobs,              \* schedule.jobs, the trigger list of the process
    built,             \* number of SchedulerService objects built so far
    modal,             \* the object of the open SchedulerModal, 0 when none is open
    gui,               \* the Tk main thread: "init", "idle", "join"
    saver,             \* the save thread of the modal
    runs,              \* the worker threads of scheduled job runs
    manual,            \* the worker thread of the manual search
    last,              \* the service call that returned last, and its result
    quiet,             \* per object: stop_scheduler stopped it and no start configured since
    job,               \* execute_scheduled_search of one worker thread, statement by statement
    store,             \* config/profiles.json and config/profile_stats.json, per profile
    disk,              \* the two files as update_profile_execution reads and writes them
    rec,               \* per calling thread: its call of update_profile_execution
    completed,         \* per profile: the calls of update_profile_execution that returned
    mail               \* an EmailSearchService object and its call of search_multiple_profiles

vars == <<file_config, current_config, is_running, scheduler_thread,
          jobs, built, modal, gui, saver, runs, manual, last, quiet, job, store,
          disk, rec, completed, mail>>

\* The messages the service returns (ASCII forms of the Spanish texts).
MsgAlreadyRunning == "El programador ya esta en ejecucion"
MsgNoConfig == "No hay configuracion de programacion"
MsgDisabled == "Programacion deshabilitada"
MsgConfigureError == "Error configurando horarios"
MsgStarted == "Programador iniciado correctamente"
MsgNotRunning == "El programador no esta en ejecucion"
MsgStopped == "Programador detenido correctamente"
MsgSaved == "Configuracion guardada"
MsgInvalid == "Error guardando configuracion del programador: Configuracion de programacion invalida"

\* The record of a returned call; arg is the configuration passed to
\* save_configuration (NoneConfig for the other calls).
Returned(op, o, ok, msg, arg) ==
    [op |-> op, obj |-> o, ok |-> ok, msg |-> msg, arg |-> arg]

\* A worker thread: pc is its stage, ok the success flag it returns, from the
\* stage it returned from, stopped the stage it was in when a stop_scheduler
\* call stopped a scheduler ("no" when none did).
IdleRun == [pc |-> "idle", ok |-> FALSE, from |-> "", stopped |-> "no"]

IdleSaver == [pc |-> "idle", obj |-> 0, config |-> NoneConfig]

InFlight(run) == run.pc \notin {"idle", "done"}

NewRun == [pc |-> "search", ok |-> FALSE, from |-> "", stopped |-> "no"]

\* load_configuration: the cleaned content of the file, None when there is
\* no file.
load_configuration == IF IsNone(file_config) THEN NoneConfig ELSE _clean_config(file_config)

\* --------------------------------------------------- SchedulerService calls
\* A slip of save_configuration: the configuration is kept before it is
\* validated.
save_configuration_keeps_first(o, config) ==
    IF ~_validate_config(config) THEN
        /\ last' = Returned("save", o, FALSE, MsgInvalid, config)
        /\ current_config' = [current_config EXCEPT ![o] = _clean_config(config)]
        /\ UNCHANGED file_config
    ELSE
        /\ file_config' = _clean_config(config)
        /\ current_config' = [current_config EXCEPT ![o] = _clean_config(config)]
        /\ last' = Returned("save", o, TRUE, MsgSaved, config)

\* save_configuration, lines 38-65: an invalid configuration raises and
\* nothing is written; a valid one is cleaned, written and kept.
save_configuration(o, config) ==
    IF ~_validate_config(config) THEN
        /\ last' = Returned("save", o, FALSE, MsgInvalid, config)
        /\ UNCHANGED <<file_config, current_config>>
    ELSE
        /\ file_config' = _clean_config(config)
        /\ current_config' = [current_config EXCEPT ![o] = _clean_config(config)]
        /\ last' = Returned("save", o, TRUE, MsgSaved, config)

\* A slip of start_scheduler: the enabled flag is not looked at.
start_scheduler_ignores_enabled(o, cb) ==
    IF is_running[o] THEN
        /\ last' = Returned("start", o, TRUE, MsgAlreadyRunning, NoneConfig)
        /\ UNCHANGED <<jobs, is_running, scheduler_thread, quiet>>
    ELSE IF IsNone(current_config[o]) THEN
        /\ last' = Returned("start", o, FALSE, MsgNoConfig, NoneConfig)
        /\ UNCHANGED <<jobs, is_running, scheduler_thread, quiet>>
    ELSE
        LET configured == ConfiguredJobs(current_config[o]) IN
        /\ jobs' = configured.jobs
        /\ IF configured.ok THEN
              /\ is_running' = [is_running EXCEPT ![o] = TRUE]
              /\ scheduler_thread' = [scheduler_thread EXCEPT ![o] = "alive"]
              /\ quiet' = [x \in Objects |-> "no"]
              /\ last' = Returned("start", o, TRUE, MsgStarted, NoneConfig)
           ELSE
              /\ last' = Returned("start", o, FALSE, MsgConfigureError, NoneConfig)
              /\ UNCHANGED <<is_running, scheduler_thread, quiet>>

\* A slip of start_scheduler: _configure_schedule without its schedule.clear().
start_scheduler_keeps_old_jobs(o, cb) ==
    IF is_running[o] THEN
        /\ last' = Returned("start", o, TRUE, MsgAlreadyRunning, NoneConfig)
        /\ UNCHANGED <<jobs, is_running, scheduler_thread, quiet>>
    ELSE IF IsNone(current_config[o]) THEN
        /\ last' = Returned("start", o, FALSE, MsgNoConfig, NoneConfig)
        /\ UNCHANGED <<jobs, is_running, scheduler_thread, quiet>>
    ELSE IF ~Get(current_config[o], "enabled", FALSE) THEN
        /\ last' = Returned("start", o, FALSE, MsgDisabled, NoneConfig)
        /\ UNCHANGED <<jobs, is_running, scheduler_thread, quiet>>
    ELSE
        LET configured == ConfiguredJobs(current_config[o]) IN
        /\ jobs' = jobs \o configured.jobs
        /\ IF configured.ok THEN
              /\ is_running' = [is_running EXCEPT ![o] = TRUE]
              /\ scheduler_thread' = [scheduler_thread EXCEPT ![o] = "alive"]
              /\ quiet' = [x \in Objects |-> "no"]
              /\ last' = Returned("start", o, TRUE, MsgStarted, NoneConfig)
           ELSE
              /\ last' = Returned("start", o, FALSE, MsgConfigureError, NoneConfig)
              /\ UNCHANGED <<is_running, scheduler_thread, quiet>>

\* start_scheduler, lines 91-134.  _configure_schedule (line 111) empties the
\* trigger list of the process and adds the entries of the configuration;
\* the loop thread is started after is_running is set.
start_scheduler(o, cb) ==
    IF is_running[o] THEN
        /\ last' = Returned("start", o, TRUE, MsgAlreadyRunning, NoneConfig)
        /\ UNCHANGED <<jobs, is_running, scheduler_thread, quiet>>
    ELSE IF IsNone(current_config[o]) THEN
        /\ last' = Returned("start", o, FALSE, MsgNoConfig, NoneConfig)
        /\ UNCHANGED <<jobs, is_running, scheduler_thread, quiet>>
    ELSE IF ~Get(current_config[o], "enabled", FALSE) THEN
        /\ last' = Returned("start", o, FALSE, MsgDisabled, NoneConfig)
        /\ UNCHANGED <<jobs, is_running, scheduler_thread, quiet>>
    ELSE
        LET configured == ConfiguredJobs(current_config[o]) IN
        /\ jobs' = configured.jobs
        /\ IF configured.ok THEN
              /\ is_running' = [is_running EXCEPT ![o] = TRUE]
              /\ scheduler_thread' = [scheduler_thread EXCEPT ![o] = "alive"]
              /\ quiet' = [x \in Objects |-> "no"]
              /\ last' = Returned("start", o, TRUE, MsgStarted, NoneConfig)
           ELSE
              /\ last' = Returned("start", o, FALSE, MsgConfigureError, NoneConfig)
              /\ UNCHANGED <<is_running, scheduler_thread, quiet>>

\* The in-flight job runs, marked as having seen a stop.
MarkStopped(rs) ==
    [r \in RunIds |->
        IF InFlight(rs[r]) /\ rs[r].stopped = "no" THEN [rs[r] EXCEPT !.stopped = rs[r].pc]
        ELSE rs[r]]

\* A slip of stop_scheduler: the trigger list is not cleared.
stop_scheduler_keeps_jobs(o) ==
    IF ~is_running[o] THEN
        /\ last' = Returned("stop", o, TRUE, MsgNotRunning, NoneConfig)
        /\ UNCHANGED <<is_running, jobs, quiet, runs>>
    ELSE
        /\ is_running' = [is_running EXCEPT ![o] = FALSE]
        /\ jobs' = jobs
        /\ quiet' = [quiet EXCEPT ![o] = "stopping"]
        /\ runs' = MarkStopped(runs)
        /\ UNCHANGED last

\* A slip of stop_scheduler: the worker threads of the job runs are ended
\* with the loop.
stop_scheduler_ends_runs(o) ==
    IF ~is_running[o] THEN
        /\ last' = Returned("stop", o, TRUE, MsgNotRunning, NoneConfig)
        /\ UNCHANGED <<is_running, jobs, quiet, runs>>
    ELSE
        /\ is_running' = [is_running EXCEPT ![o] = FALSE]
        /\ jobs' = <<>>
        /\ quiet' = [quiet EXCEPT ![o] = "stopping"]
        /\ runs' = [r \in RunIds |->
                      IF InFlight(runs[r])
                      THEN [pc |-> "done", ok |-> FALSE, from |-> runs[r].pc, stopped |-> runs[r].pc]
                      ELSE runs[r]]
        /\ UNCHANGED last

\* stop_scheduler up to the join, lines 143-149: not running returns at once;
\* running clears the flag and the trigger list of the process.  The worker
\* threads are not touched.
stop_scheduler(o) ==
    IF ~is_running[o] THEN
        /\ last' = Returned("stop", o, TRUE, MsgNotRunning, NoneConfig)
        /\ UNCHANGED <<is_running, jobs, quiet, runs>>
    ELSE
        /\ is_running' = [is_running EXCEPT ![o] = FALSE]
        /\ jobs' = <<>>
        /\ quiet' = [quiet EXCEPT ![o] = "stopping"]
        /\ runs' = MarkStopped(runs)
        /\ UNCHANGED last

\* stop_scheduler from the join on, lines 151-155: the caller waits for the
\* loop thread to end, then returns success.
stop_scheduler_join(o) ==
    /\ scheduler_thread[o] # "alive"
    /\ last' = Returned("stop", o, TRUE, MsgStopped, NoneConfig)
    /\ quiet' = [quiet EXCEPT ![o] = IF @ = "stopping" THEN "stopped" ELSE @]

\* ------------------------------------------------------- the polling loop
\* What _job_wrapper returns to the schedule library (line 391).
_job_wrapper_result == "CancelJob"

\* schedule's _run_job: the job function is called; a job whose function
\* returns CancelJob is removed from the list, any other job is rescheduled
\* for its next instant.
_run_job(entry) ==
    IF _job_wrapper_result = "CancelJob" THEN <<>> ELSE <<[entry EXCEPT !.due = FALSE]>>

RECURSIVE run_pending(_)
\* schedule.run_pending(): every due entry is run, the others are kept.
run_pending(js) ==
    IF js = <<>> THEN <<>>
    ELSE (IF Head(js).due THEN _run_job(Head(js)) ELSE <<Head(js)>>) \o run_pending(Tail(js))

DueJobs == {i \in DOMAIN jobs : jobs[i].due}

IdleRuns(rs) == {r \in RunIds : rs[r].pc = "idle"}

RECURSIVE Spawn(_, _)
\* _job_wrapper, lines 389-390, once per due entry: a new worker thread
\* running execute_scheduled_search.
Spawn(rs, n) ==
    IF n = 0 THEN rs
    ELSE LET r == CHOOSE x \in IdleRuns(rs) : \A y \in IdleRuns(rs) : x <= y IN
         Spawn([rs EXCEPT ![r] = NewRun], n - 1)

\* Time passes: entry i of the trigger list reaches its next instant.  At
\* most MaxRuns worker threads exist, so no more entries become due than
\* worker threads can be started.
BecomeDue(i) ==
    /\ i \in DOMAIN jobs
    /\ ~jobs[i].due
    /\ Cardinality(DueJobs) + Cardinality(RunIds \ IdleRuns(runs)) < MaxRuns
    /\ jobs' = [jobs EXCEPT ![i].due = TRUE]
    /\ UNCHANGED <<file_config, current_config, is_running, scheduler_thread,
                   built, modal, gui, saver, runs, manual, last, quiet>>
    /\ UNCHANGED <<job, store, disk, rec, completed, mail>>

\* A slip of _job_wrapper: execute_scheduled_search is called on the loop
\* thread, which is back at its while test only when no job run is going on.
LoopAtTick_inline(o) ==
    /\ scheduler_thread[o] = "alive"
    /\ \A r \in RunIds : ~InFlight(runs[r])

\* The loop thread of object o is at the while test of _scheduler_loop
\* (line 399): _job_wrapper returns as soon as it has started the worker
\* thread (lines 389-391), so a live loop thread is there every second.
LoopAtTick(o) ==
    /\ scheduler_thread[o] = "alive"

\* _scheduler_loop, lines 399-402: one iteration with is_running set that
\* finds due entries.
LoopRun(o) ==
    /\ LoopAtTick(o)
    /\ is_running[o]
    /\ DueJobs # {}
    /\ runs' = Spawn(runs, Cardinality(DueJobs))
    /\ jobs' = run_pending(jobs)
    /\ UNCHANGED <<file_config, current_config, is_running, scheduler_thread,
                   built, modal, gui, saver, manual, last, quiet>>
    /\ UNCHANGED <<job, store, disk, rec, completed, mail>>

\* _scheduler_loop, lines 399 and 407: is_running is found cleared and the
\* thread ends.
LoopExit(o) ==
    /\ LoopAtTick(o)
    /\ ~is_running[o]
    /\ scheduler_thread' = [scheduler_thread EXCEPT ![o] = "dead"]
    /\ UNCHANGED <<file_config, current_config, is_running, jobs,
                   built, modal, gui, saver, runs, manual, last, quiet>>
    /\ UNCHANGED <<job, store, disk, rec, completed, mail>>

\* ------------------------------------------------------------ job runs
\* execute_scheduled_search in four stages.  "search": lines 207-247, the
\* credentials, the active profiles and search_multiple_profiles; a run
\* without credentials or active profiles, or one that raised, ends with
\* (False, message).
RunSearch(r) ==
    /\ runs[r].pc = "search"
    /\ \/ runs' = [runs EXCEPT ![r].pc = "record"]
       \/ runs' = [runs EXCEPT ![r].pc = "done", ![r].ok = FALSE, ![r].from = "search"]
    /\ UNCHANGED <<file_config, current_config, is_running, scheduler_thread,
                   jobs, built, modal, gui, saver, manual, last, quiet>>
    /\ UNCHANGED <<job, store, disk, rec, completed, mail>>

\* "record": lines 249-271, update_profile_execution for every successful
\* profile; without a successful profile the run ends with (True, message),
\* and a raise ends it with (False, message).
RunRecord(r) ==
    /\ runs[r].pc = "record"
    /\ \/ runs' = [runs EXCEPT ![r].pc = "report"]
       \/ \E ok \in BOOLEAN :
             runs' = [runs EXCEPT ![r].pc = "done", ![r].ok = ok, ![r].from = "record"]
    /\ UNCHANGED <<file_config, current_config, is_running, scheduler_thread,
                   jobs, built, modal, gui, saver, manual, last, quiet>>
    /\ UNCHANGED <<job, store, disk, rec, completed, mail>>

\* "report": lines 273-294, the Excel report and the readiness of the send
\* configuration; no data, not ready or an error end the run with (True, message).
RunReport(r) ==
    /\ runs[r].pc = "report"
    /\ \/ runs' = [runs EXCEPT ![r].pc = "dispatch"]
       \/ runs' = [runs EXCEPT ![r].pc = "done", ![r].ok = TRUE, ![r].from = "report"]
    /\ UNCHANGED <<file_config, current_config, is_running, scheduler_thread,
                   jobs, built, modal, gui, saver, manual, last, quiet>>
    /\ UNCHANGED <<job, store, disk, rec, completed, mail>>

\* "dispatch": lines 296-318, send_report_email; sent or not, the run ends
\* with (True, message).
RunDispatch(r) ==
    /\ runs[r].pc = "dispatch"
    /\ runs' = [runs EXCEPT ![r].pc = "done", ![r].ok = TRUE, ![r].from = "dispatch"]
    /\ UNCHANGED <<file_config, current_config, is_running, scheduler_thread,
                   jobs, built, modal, gui, saver, manual, last, quiet>>
    /\ UNCHANGED <<job, store, disk, rec, completed, mail>>

\* The worker thread has returned and is gone.
RunEnd(r) ==
    /\ runs[r].pc = "done"
    /\ runs' = [runs EXCEPT ![r] = IdleRun]
    /\ UNCHANGED <<file_config, current_config, is_running, scheduler_thread,
                   jobs, built, modal, gui, saver, manual, last, quiet>>
    /\ UNCHANGED <<job, store, disk, rec, completed, mail>>

\* execute_scheduled_search, lines 200-327, as one step: the worker thread
\* runs to its return.
RunWhole(r) ==
    /\ runs[r].pc = "search"
    /\ runs' = [runs EXCEPT ![r] = IdleRun]
    /\ UNCHANGED <<file_config, current_config, is_running, scheduler_thread,
                   jobs, built, modal, gui, saver, manual, last, quiet>>
    /\ UNCHANGED <<job, store, disk, rec, completed, mail>>

\* execute_manual_search, gui/profile_manager.py lines 485-520: the button
\* is disabled while a manual search runs, and the open modal holds the grab.
ManualSearch ==
    /\ gui = "idle"
    /\ modal = 0
    /\ manual.pc = "idle"
    /\ manual' = NewRun
    /\ UNCHANGED <<file_config, current_config, is_running, scheduler_thread,
                   jobs, built, modal, gui, saver, runs, last, quiet>>
    /\ UNCHANGED <<job, store, disk, rec, completed, mail>>

\* _execute_manual_search_thread, lines 522-584: the search, then the
\* update_profile_execution calls, then the result handed to the main thread.
ManualStep ==
    /\ \/ /\ manual.pc = "search"
          /\ \/ manual' = [manual EXCEPT !.pc = "record"]
             \/ manual' = [manual EXCEPT !.pc = "done", !.ok = FALSE, !.from = "search"]
       \/ /\ manual.pc = "record"
          /\ \E ok \in BOOLEAN :
                manual' = [manual EXCEPT !.pc = "done", !.ok = ok, !.from = "record"]
       \/ /\ manual.pc = "done"
          /\ manual' = IdleRun
    /\ UNCHANGED <<file_config, current_config, is_running, scheduler_thread,
                   jobs, built, modal, gui, saver, runs, last, quiet>>
    /\ UNCHANGED <<job, store, disk, rec, completed, mail>>

\* ------------------------------------------------------ the modal window
\* The configurations _save_configuration_thread (gui/scheduler_modal.py
\* lines 367-384) builds from the form: the keys of the chosen type only.
ModalConfigs ==
    {[enabled |-> TRUE, type |-> "daily", time |-> "09:00"],
     [enabled |-> FALSE, type |-> "daily", time |-> "09:00"],
     [enabled |-> FALSE, type |-> "daily", time |-> "25:00"],
     [enabled |-> TRUE, type |-> "daily", time |-> "9:5"],
     [enabled |-> TRUE, type |-> "weekly", time |-> "09:00", days |-> <<"monday", "friday">>],
     [enabled |-> TRUE, type |-> "weekly", time |-> "09:00", days |-> <<>>],
     [enabled |-> TRUE, type |-> "interval", interval |-> 2, unit |-> "minutes"],
     [enabled |-> TRUE, type |-> "interval", interval |-> 0, unit |-> "minutes"]}

\* validate_configuration of the modal, lines 476-533: the check made on
\* the form before the save thread is started.
validate_configuration(config) ==
    IF ~config["enabled"] THEN TRUE
    ELSE IF config["type"] \in {"daily", "weekly"} THEN
        /\ config["time"] # ""
        /\ StrptimeOK(config["time"])
        /\ config["type"] = "weekly" => config["days"] # <<>>
    ELSE IF config["type"] = "interval" THEN config["interval"] > 0
    ELSE TRUE

\* What scheduler_config.json can hold when the program starts: nothing, or
\* what an earlier session saved through the modal.
InitialFiles ==
    {NoneConfig} \cup
    {_clean_config(c) : c \in {x \in ModalConfigs : validate_configuration(x) /\ _validate_config(x)}}

\* SchedulerModal.__init__, line 24, from open_scheduler_modal: a new
\* SchedulerService, whose constructor loads the file.
OpenModal ==
    /\ gui = "idle"
    /\ modal = 0
    /\ saver.pc = "idle"
    /\ built < MaxObjects
    /\ built' = built + 1
    /\ modal' = built + 1
    /\ current_config' = [current_config EXCEPT ![built + 1] = load_configuration]
    /\ UNCHANGED <<file_config, is_running, scheduler_thread, jobs,
                   gui, saver, runs, manual, last, quiet>>
    /\ UNCHANGED <<job, store, disk, rec, completed, mail>>

\* close_modal, lines 609-614: the window is destroyed, its service object
\* and the threads it started stay.
CloseModal ==
    /\ gui = "idle"
    /\ modal # 0
    /\ modal' = 0
    /\ UNCHANGED <<file_config, current_config, is_running, scheduler_thread,
                   jobs, built, gui, saver, runs, manual, last, quiet>>
    /\ UNCHANGED <<job, store, disk, rec, completed, mail>>

\* SchedulerModal.save_configuration, lines 340-354: the form is checked,
\* the button disabled and the save thread started.
ModalSave(config) ==
    /\ gui = "idle"
    /\ modal # 0
    /\ saver.pc = "idle"
    /\ validate_configuration(config)
    /\ saver' = [pc |-> "save", obj |-> modal, config |-> config]
    /\ UNCHANGED <<file_config, current_config, is_running, scheduler_thread,
                   jobs, built, modal, gui, runs, manual, last, quiet>>
    /\ UNCHANGED <<job, store, disk, rec, completed, mail>>

\* _save_configuration_thread, line 387; a raise goes to the except of
\* line 404 and the thread ends.
SaverSave ==
    /\ saver.pc = "save"
    /\ save_configuration(saver.obj, saver.config)
    /\ saver' = IF _validate_config(saver.config) THEN [saver EXCEPT !.pc = "restart"]
                ELSE IdleSaver
    /\ UNCHANGED <<is_running, scheduler_thread, jobs, built, modal,
                   gui, runs, manual, quiet>>
    /\ UNCHANGED <<job, store, disk, rec, completed, mail>>

\* _save_configuration_thread, lines 390-395: an enabled configuration
\* starts the scheduler of the modal's object.
SaverStart ==
    /\ saver.pc = "restart"
    /\ saver.config["enabled"]
    /\ start_scheduler(saver.obj, "none")
    /\ saver' = IdleSaver
    /\ UNCHANGED <<file_config, current_config, built, modal, gui, runs, manual>>
    /\ UNCHANGED <<job, store, disk, rec, completed, mail>>

\* _save_configuration_thread, lines 396-399: a disabled configuration
\* stops the scheduler of the modal's object.
SaverStop ==
    /\ saver.pc = "restart"
    /\ ~saver.config["enabled"]
    /\ stop_scheduler(saver.obj)
    /\ saver' = IF is_running[saver.obj] THEN [saver EXCEPT !.pc = "join"] ELSE IdleSaver
    /\ UNCHANGED <<file_config, current_config, scheduler_thread, built, modal, gui, manual>>
    /\ UNCHANGED <<job, store, disk, rec, completed, mail>>

SaverJoin ==
    /\ saver.pc = "join"
    /\ stop_scheduler_join(saver.obj)
    /\ saver' = IdleSaver
    /\ UNCHANGED <<file_config, current_config, is_running, scheduler_thread,
                   jobs, built, modal, gui, runs, manual>>
    /\ UNCHANGED <<job, store, disk, rec, completed, mail>>

\* ------------------------------------------------- the ProfileManager
\* start_scheduler_if_configured, gui/profile_manager.py lines 261-277,
\* called once from the constructor.
GuiInit ==
    /\ gui = "init"
    /\ gui' = "idle"
    /\ IF ~IsNone(current_config[PM]) /\ Get(current_config[PM], "enabled", FALSE)
       THEN start_scheduler(PM, "pm")
       ELSE UNCHANGED <<jobs, is_running, scheduler_thread, quiet, last>>
    /\ UNCHANGED <<file_config, current_config, built, modal, saver, runs, manual>>
    /\ UNCHANGED <<job, store, disk, rec, completed, mail>>

\* The "Iniciar" button, lines 314-330.
GuiStart ==
    /\ gui = "idle"
    /\ modal = 0
    /\ start_scheduler(PM, "pm")
    /\ UNCHANGED <<file_config, current_config, built, modal, gui, saver, runs, manual>>
    /\ UNCHANGED <<job, store, disk, rec, completed, mail>>

\* The "Detener" button, lines 332-346.
GuiStop ==
    /\ gui = "idle"
    /\ modal = 0
    /\ stop_scheduler(PM)
    /\ gui' = IF is_running[PM] THEN "join" ELSE "idle"
    /\ UNCHANGED <<file_config, current_config, scheduler_thread, built, modal, saver, manual>>
    /\ UNCHANGED <<job, store, disk, rec, completed, mail>>

GuiJoin ==
    /\ gui = "join"
    /\ stop_scheduler_join(PM)
    /\ gui' = "idle"
    /\ UNCHANGED <<file_config, current_config, is_running, scheduler_thread,
                   jobs, built, modal, saver, runs, manual>>
    /\ UNCHANGED <<job, store, disk, rec, completed, mail>>

\* ------------------------------------------- execute_scheduled_search
\* The profiles of config/profiles.json, in file order.
Profiles == {"p1", "p2"}

ProfileOrder == <<"p1", "p2">>

\* What a search can find for one profile.
EmailCounts == {0, 2}

\* The entry of one profile: is_active and last_executed of profiles.json
\* (0: never executed, otherwise the time of the run that recorded it) and
\* its record of profile_stats.json.
NewProfile(active) ==
    [is_active |-> active, last_executed |-> 0, total_executions |-> 0,
     current_emails_found |-> 0, total_emails_accumulated |-> 0]

\* ProfileService.get_active_profiles, services/profile_service.py lines
\* 393-405.
get_active_profiles(st) == SelectSeq(ProfileOrder, LAMBDA p : st[p].is_active)

\* ProfileService.update_profile_execution, lines 407-461: last_executed of
\* the profile, then the counters of its stats record.
update_profile_execution(st, profile_id, emails_found, now) ==
    [st EXCEPT ![profile_id] =
        [@ EXCEPT !.last_executed = now,
                  !.total_executions = @ + 1,
                  !.current_emails_found = emails_found,
                  !.total_emails_accumulated = @ + emails_found]]

NoResult == [ok |-> FALSE, outcome |-> "none"]

NoCalls ==
    [profiles_loaded |-> FALSE, connects |-> 0, recorded |-> <<>>,
     generated |-> FALSE, sends |-> 0]

\* No job run is being followed; id counts the runs followed so far.  Of a
\* run, calls says which collaborators it has used, ready and artifact what
\* the send configuration and the report file were when it looked, threw
\* whether the status callback has raised, before what the profiles were
\* when it began.
IdleJob(id) ==
    [pc |-> "idle", run |-> 0, id |-> id, active |-> <<>>, results |-> <<>>,
     todo |-> <<>>, successful_profiles |-> 0, total_emails |-> 0,
     events |-> <<>>, calls |-> NoCalls, ready |-> FALSE, artifact |-> FALSE,
     threw |-> FALSE, escaped |-> FALSE, before |-> <<>>, result |-> NoResult]

\* A slip of _notify_callback: the callback is called without the try.
_notify_callback_unprotected(throws) == IF throws THEN "raised" ELSE "returned"

\* _notify_callback, lines 412-418: an exception of the callback is caught
\* and printed.
_notify_callback(throws) == "returned"

\* self._notify_callback(message, status) is called; throws tells whether the
\* callback raises in this call.
Emit(j, tag, level, throws) ==
    [j EXCEPT !.events = Append(@, [tag |-> tag, level |-> level]),
              !.threw = @ \/ throws]

\* return success, message
Return(j, ok, outcome) ==
    [j EXCEPT !.pc = "done", !.result = [ok |-> ok, outcome |-> outcome]]

\* An exception leaves execute_scheduled_search: the worker thread ends
\* without a result.
Escaped(j) == [j EXCEPT !.pc = "done", !.escaped = TRUE]

\* A slip of execute_scheduled_search: no outer try, an exception of a stage
\* leaves the function.
TopExcept_missing(j, throws) == Escaped(j)

\* The outer except, lines 320-327.
TopExcept(j, throws) ==
    LET e == Emit(j, "run_error", "error", throws) IN
    IF _notify_callback(throws) = "raised" THEN Escaped(e)
    ELSE Return(e, FALSE, "error")

\* A slip of the except of the report block: the run is failed.
ReportExcept_fails(j, throws) ==
    Return(Emit(j, "report_error", "error", throws), FALSE, "report_error")

\* The except of the report block, lines 313-318; it is inside the outer try.
ReportExcept(j, throws) ==
    LET e == Emit(j, "report_error", "error", throws) IN
    IF _notify_callback(throws) = "raised" THEN TopExcept(e, throws)
    ELSE Return(e, TRUE, "report_error")

\* A slip of lines 216-230: the run goes on without credentials.
StageCredentials_goes_on(j, st, env) ==
    IF env.credentials = "raises" THEN [job |-> TopExcept(j, env.throws), store |-> st]
    ELSE [job |-> [j EXCEPT !.pc = "profiles"], store |-> st]

\* Lines 216-230: credentials_exist and load_credentials.
StageCredentials(j, st, env) ==
    IF env.credentials = "raises" THEN [job |-> TopExcept(j, env.throws), store |-> st]
    ELSE IF env.credentials \in {"missing", "unloadable"} THEN
        LET e == Emit(j, "no_credentials", "error", env.throws) IN
        [job |-> IF _notify_callback(env.throws) = "raised" THEN TopExcept(e, env.throws)
                 ELSE Return(e, FALSE, "no_credentials"),
         store |-> st]
    ELSE [job |-> [j EXCEPT !.pc = "profiles"], store |-> st]

\* Lines 232-243: the active profiles are loaded; without any the run
\* returns (False, "No hay perfiles activos") after a warning.
StageProfiles(j, st, env) ==
    IF env.raises THEN [job |-> TopExcept(j, env.throws), store |-> st]
    ELSE
        LET active == get_active_profiles(st)
            l == [j EXCEPT !.calls.profiles_loaded = TRUE] IN
        IF active = <<>> THEN
            LET e == Emit(l, "no_active_profiles", "warning", env.throws) IN
            [job |-> IF _notify_callback(env.throws) = "raised" THEN TopExcept(e, env.throws)
                     ELSE Return(e, FALSE, "no_active_profiles"),
             store |-> st]
        ELSE
            LET e == Emit(l, "starting", "info", env.throws) IN
            [job |-> IF _notify_callback(env.throws) = "raised" THEN TopExcept(e, env.throws)
                     ELSE [e EXCEPT !.pc = "search", !.active = active],
             store |-> st]

\* search_multiple_profiles, services/email_search_service.py lines 56-142:
\* one connection for all profiles; when it fails every profile gets
\* success False and emails_found 0, otherwise each profile its own result.
search_multiple_profiles(active, connect_ok, found) ==
    [p \in {active[i] : i \in DOMAIN active} |->
        IF connect_ok /\ found[p].success
        THEN [success |-> TRUE, emails_found |-> found[p].emails_found]
        ELSE [success |-> FALSE, emails_found |-> 0]]

\* Lines 245-252.
StageSearch(j, st, env) ==
    IF env.raises THEN [job |-> TopExcept(j, env.throws), store |-> st]
    ELSE
        [job |-> [j EXCEPT !.pc = "record",
                           !.calls.connects = @ + 1,
                           !.results = search_multiple_profiles(j.active, env.connect_ok, env.found),
                           !.todo = j.active,
                           !.successful_profiles = 0,
                           !.total_emails = 0],
         store |-> st]

\* A slip of lines 254-263: the statistics are updated whatever the result.
RecordOne_all(j, st, profile_id) ==
    LET result == j.results[profile_id] IN
    [job |-> [j EXCEPT !.todo = Tail(@),
                       !.calls.recorded = Append(@, profile_id),
                       !.total_emails = @ + result.emails_found,
                       !.successful_profiles = @ + 1],
     store |-> update_profile_execution(st, profile_id, result.emails_found, j.id)]

\* A slip of line 258: the total is overwritten, not added to.
RecordOne_last_total(j, st, profile_id) ==
    LET result == j.results[profile_id] IN
    IF result.success THEN
        [job |-> [j EXCEPT !.todo = Tail(@),
                           !.calls.recorded = Append(@, profile_id),
                           !.total_emails = result.emails_found,
                           !.successful_profiles = @ + 1],
         store |-> update_profile_execution(st, profile_id, result.emails_found, j.id)]
    ELSE [job |-> [j EXCEPT !.todo = Tail(@)], store |-> st]

\* Lines 254-263, one turn of the loop over the results.
RecordOne(j, st, profile_id) ==
    LET result == j.results[profile_id] IN
    IF result.success THEN
        [job |-> [j EXCEPT !.todo = Tail(@),
                           !.calls.recorded = Append(@, profile_id),
                           !.total_emails = @ + result.emails_found,
                           !.successful_profiles = @ + 1],
         store |-> update_profile_execution(st, profile_id, result.emails_found, j.id)]
    ELSE [job |-> [j EXCEPT !.todo = Tail(@)], store |-> st]

\* A slip of lines 269-271: the report is made also without a successful profile.
RecordEnd_always_reports(j, throws) == [j EXCEPT !.pc = "report"]

\* Line 266, the summary of the search: successful_profiles, len(results)
\* and total_emails, which every return message after the report block
\* carries.
search_message(j) ==
    [successful_profiles |-> j.successful_profiles,
     results |-> Cardinality(DOMAIN j.results),
     total_emails |-> j.total_emails]

\* Lines 265-271, after the loop.
RecordEnd(j, throws) ==
    IF j.successful_profiles = 0 THEN
        LET e == Emit(j, "no_results", "warning", throws) IN
        IF _notify_callback(throws) = "raised" THEN TopExcept(e, throws)
        ELSE Return(e, TRUE, "no_results")
    ELSE [j EXCEPT !.pc = "report"]

StageRecord(j, st, env) ==
    IF j.todo # <<>> THEN RecordOne(j, st, Head(j.todo))
    ELSE [job |-> RecordEnd(j, env.throws), store |-> st]

\* Lines 274-287: the statistics of all profiles are read and the Excel
\* report is generated.
StageReport(j, st, env) ==
    LET e == Emit(j, "generating", "info", env.throws) IN
    [job |->
        IF _notify_callback(env.throws) = "raised" THEN ReportExcept(e, env.throws)
        ELSE IF env.report = "raises" THEN ReportExcept(e, env.throws)
        ELSE IF env.report = "no_data" THEN
            LET w == Emit(e, "no_data", "warning", env.throws) IN
            IF _notify_callback(env.throws) = "raised" THEN ReportExcept(w, env.throws)
            ELSE Return(w, TRUE, "no_data")
        ELSE
            LET g == Emit([e EXCEPT !.calls.generated = TRUE, !.artifact = TRUE],
                          "generated", "success", env.throws) IN
            IF _notify_callback(env.throws) = "raised" THEN ReportExcept(g, env.throws)
            ELSE [g EXCEPT !.pc = "ready"],
     store |-> st]

\* ConfigService.get_email_send_status, services/config_service.py lines
\* 202-239: ready is enabled and a recipient that is not blank.
get_email_send_status(enabled, has_recipient) ==
    [enabled |-> enabled, has_recipient |-> has_recipient, ready |-> enabled /\ has_recipient]

\* Lines 289-294: the send configuration is checked.
StageReady(j, st, env) ==
    LET email_send_status == get_email_send_status(env.enabled, env.has_recipient) IN
    [job |->
        IF ~email_send_status.ready THEN
            LET e == Emit(j, "not_sent", "warning", env.throws) IN
            IF _notify_callback(env.throws) = "raised" THEN ReportExcept(e, env.throws)
            ELSE Return(e, TRUE, "generated_not_sent")
        ELSE [j EXCEPT !.pc = "send", !.ready = email_send_status.ready],
     store |-> st]

\* send_report_email, services/email_send_service.py lines 22-81: it
\* returns (False, message) when the report file does not exist (lines
\* 52-55), otherwise what sending gave; it catches what is raised.
send_report_email(artifact_exists, smtp) ==
    IF ~artifact_exists THEN "failed" ELSE smtp

\* A slip of lines 296-311: the sending event is emitted after the send.
StageSend_announces_after(j, st, env) ==
    LET c == [j EXCEPT !.calls.sends = @ + 1, !.artifact = env.artifact_exists]
        sent == IF env.send = "raises" THEN "raises"
                ELSE send_report_email(env.artifact_exists, env.send) IN
    [job |->
        IF sent = "raises" THEN ReportExcept(c, env.throws)
        ELSE IF sent = "sent" THEN
            Return(Emit(Emit(c, "sent", "success", env.throws),
                        "sending", "info", env.throws), TRUE, "sent")
        ELSE
            Return(Emit(Emit(c, "send_failed", "error", env.throws),
                        "sending", "info", env.throws), TRUE, "send_failed"),
     store |-> st]

\* Lines 296-311: send_report_email is called with the path of the report;
\* the call returns (True, message) or (False, message), or raises.
StageSend(j, st, env) ==
    LET e == Emit(j, "sending", "info", env.throws) IN
    [job |->
        IF _notify_callback(env.throws) = "raised" THEN ReportExcept(e, env.throws)
        ELSE
            LET c == [e EXCEPT !.calls.sends = @ + 1, !.artifact = env.artifact_exists]
                sent == IF env.send = "raises" THEN "raises"
                        ELSE send_report_email(env.artifact_exists, env.send) IN
            IF sent = "raises" THEN ReportExcept(c, env.throws)
            ELSE IF sent = "sent" THEN
                LET ok == Emit(c, "sent", "success", env.throws) IN
                IF _notify_callback(env.throws) = "raised" THEN ReportExcept(ok, env.throws)
                ELSE Return(ok, TRUE, "sent")
            ELSE
                LET f == Emit(c, "send_failed", "error", env.throws) IN
                IF _notify_callback(env.throws) = "raised" THEN ReportExcept(f, env.throws)
                ELSE Return(f, TRUE, "send_failed"),
     store |-> st]

\* What the collaborators of a stage can answer, and whether the status
\* callback raises when the stage calls it.
StageEnvs(pc) ==
    CASE pc = "credentials" ->
            [throws : BOOLEAN, credentials : {"ok", "missing", "unloadable", "raises"}]
      [] pc = "profiles" -> [throws : BOOLEAN, raises : BOOLEAN]
      [] pc = "search" ->
            [throws : BOOLEAN, raises : BOOLEAN, connect_ok : BOOLEAN,
             found : [Profiles -> [success : BOOLEAN, emails_found : EmailCounts]]]
      [] pc = "record" -> [throws : BOOLEAN]
      [] pc = "report" -> [throws : BOOLEAN, report : {"ok", "no_data", "raises"}]
      [] pc = "ready" -> [throws : BOOLEAN, enabled : BOOLEAN, has_recipient : BOOLEAN]
      [] pc = "send" ->
            [throws : BOOLEAN, artifact_exists : BOOLEAN, send : {"sent", "failed", "raises"}]
      [] OTHER -> {}

\* The next stage of execute_scheduled_search.
Step(j, st, env) ==
    CASE j.pc = "credentials" -> StageCredentials(j, st, env)
      [] j.pc = "profiles" -> StageProfiles(j, st, env)
      [] j.pc = "search" -> StageSearch(j, st, env)
      [] j.pc = "record" -> StageRecord(j, st, env)
      [] j.pc = "report" -> StageReport(j, st, env)
      [] j.pc = "ready" -> StageReady(j, st, env)
      [] j.pc = "send" -> StageSend(j, st, env)
      [] OTHER -> [job |-> j, store |-> st]

\* The worker thread started by _job_wrapper enters execute_scheduled_search.
JobBegin(r) ==
    /\ runs[r].pc = "search"
    /\ job.pc = "idle"
    /\ job.id < MaxJobs
    /\ job' = [IdleJob(job.id + 1) EXCEPT !.pc = "credentials", !.run = r, !.before = store]
    /\ UNCHANGED <<file_config, current_config, is_running, scheduler_thread, jobs,
                   built, modal, gui, saver, runs, manual, last, quiet, store>>
    /\ UNCHANGED <<disk, rec, completed, mail>>

\* One stage of the run.
JobStage(pc) ==
    /\ job.pc = pc
    /\ \E env \in StageEnvs(pc) :
          LET next == Step(job, store, env) IN
          /\ job' = next.job
          /\ store' = next.store
    /\ UNCHANGED <<file_config, current_config, is_running, scheduler_thread, jobs,
                   built, modal, gui, saver, runs, manual, last, quiet>>
    /\ UNCHANGED <<disk, rec, completed, mail>>

\* execute_scheduled_search has returned (or raised) and the worker thread
\* ends.
JobReturn ==
    /\ job.pc = "done"
    /\ runs' = [runs EXCEPT ![job.run] = IdleRun]
    /\ job' = IdleJob(job.id)
    /\ UNCHANGED <<file_config, current_config, is_running, scheduler_thread, jobs,
                   built, modal, gui, saver, manual, last, quiet, store>>
    /\ UNCHANGED <<disk, rec, completed, mail>>

\* ------------------------------------- update_profile_execution in detail
\* The threads that call update_profile_execution: the worker thread of a
\* scheduled run (scheduler_service.py line 257) and the thread of the
\* manual search (gui/profile_manager.py line 552).  Each has its own
\* ProfileService object; the objects share the two files.
Callers == {"run", "manual"}

\* Line 455: the history keeps the last 50 executions.
HistoryLimit == 50

\* Calls of update_profile_execution followed when they are made one after
\* the other, and when they overlap.
MaxCalls == 52

MaxOverlapping == 3

\* The statistics of a profile that was never executed, lines 429-435.
ZeroStats ==
    [total_executions |-> 0, current_emails_found |-> 0,
     total_emails_accumulated |-> 0, last_execution |-> 0,
     execution_history |-> <<>>]

\* No call of update_profile_execution is made by the thread.
IdleRec ==
    [pc |-> "idle", profile_id |-> "", emails_found |-> 0, now |-> 0,
     profiles |-> <<>>, stats |-> <<>>]

\* The calls of update_profile_execution that have returned, and the ones
\* that are being made.
CallsCompleted == Len(completed["p1"]) + Len(completed["p2"])

CallsInFlight == Cardinality({c \in Callers : rec[c].pc # "idle"})

\* A profile of profiles.json, by its id: its name and its last_executed (0
\* for None).  A new profile was never executed (lines 83-92).
StoredProfile(name) == [name |-> name, last_executed |-> 0]

\* The names of the profiles that exist at the start.
InitialName(p) == IF p = "p1" THEN "Ventas" ELSE "Compras"

\* load_profiles, lines 342-391: the profiles of profiles.json.
load_profiles == disk.profiles

\* _load_profile_stats, lines 739-760: the dict of profile_stats.json.
_load_profile_stats == disk.stats

\* A slip of line 456: the first 50 executions are kept.
Truncate_keeps_oldest(history) ==
    IF Len(history) > HistoryLimit THEN SubSeq(history, 1, HistoryLimit) ELSE history

\* Lines 455-456: execution_history[-50:] when it is longer than 50.
Truncate(history) ==
    IF Len(history) > HistoryLimit
    THEN SubSeq(history, Len(history) - HistoryLimit + 1, Len(history))
    ELSE history

\* A slip of line 440: the count of the execution is added to
\* current_emails_found.
RecordStats_additive(stats, profile_id, emails_found, now) ==
    LET old == IF profile_id \in DOMAIN stats THEN stats[profile_id] ELSE ZeroStats
        new == [total_executions |-> old.total_executions + 1,
                current_emails_found |-> old.current_emails_found + emails_found,
                total_emails_accumulated |-> old.total_emails_accumulated + emails_found,
                last_execution |-> now,
                execution_history |->
                    Truncate(Append(old.execution_history,
                                    [timestamp |-> now, emails_found |-> emails_found]))] IN
    [p \in DOMAIN stats \cup {profile_id} |-> IF p = profile_id THEN new ELSE stats[p]]

\* Lines 428-456: the record of the profile is created when the dict has
\* none, then counted up, and the execution is added to its history.
RecordStats(stats, profile_id, emails_found, now) ==
    LET old == IF profile_id \in DOMAIN stats THEN stats[profile_id] ELSE ZeroStats
        new == [total_executions |-> old.total_executions + 1,
                current_emails_found |-> emails_found,
                total_emails_accumulated |-> old.total_emails_accumulated + emails_found,
                last_execution |-> now,
                execution_history |->
                    Truncate(Append(old.execution_history,
                                    [timestamp |-> now, emails_found |-> emails_found]))] IN
    [p \in DOMAIN stats \cup {profile_id} |-> IF p = profile_id THEN new ELSE stats[p]]

\* update_profile_execution(profile_id, emails_found) is called by thread c;
\* datetime.now() of the call is the number of the call.
RecBegin(c, profile_id, emails_found) ==
    /\ rec[c].pc = "idle"
    /\ rec' = [rec EXCEPT ![c] =
                  [IdleRec EXCEPT !.pc = "load_profiles",
                                  !.profile_id = profile_id,
                                  !.emails_found = emails_found,
                                  !.now = CallsCompleted + CallsInFlight + 1]]
    /\ UNCHANGED <<disk, completed, mail>>
    /\ UNCHANGED <<file_config, current_config, is_running, scheduler_thread, jobs,
                   built, modal, gui, saver, runs, manual, last, quiet, job, store>>

\* Lines 417-421: the profiles are read and last_executed of the profile is
\* set in the list that was read, when the profile is in it.
RecLoadProfiles(c) ==
    /\ rec[c].pc = "load_profiles"
    /\ rec' = [rec EXCEPT ![c].pc = "save_profiles",
                          ![c].profiles =
                              IF rec[c].profile_id \in DOMAIN load_profiles
                              THEN [load_profiles EXCEPT
                                       ![rec[c].profile_id].last_executed = rec[c].now]
                              ELSE load_profiles]
    /\ UNCHANGED <<disk, completed, mail>>
    /\ UNCHANGED <<file_config, current_config, is_running, scheduler_thread, jobs,
                   built, modal, gui, saver, runs, manual, last, quiet, job, store>>

\* Line 423, _save_profiles (lines 669-701): profiles.json is written anew
\* from the list.
RecSaveProfiles(c) ==
    /\ rec[c].pc = "save_profiles"
    /\ disk' = [disk EXCEPT !.profiles = rec[c].profiles]
    /\ rec' = [rec EXCEPT ![c].pc = "load_stats"]
    /\ UNCHANGED <<completed, mail>>
    /\ UNCHANGED <<file_config, current_config, is_running, scheduler_thread, jobs,
                   built, modal, gui, saver, runs, manual, last, quiet, job, store>>

\* Lines 426-456: the statistics are read and changed in the dict that was
\* read.
RecLoadStats(c) ==
    /\ rec[c].pc = "load_stats"
    /\ rec' = [rec EXCEPT ![c].pc = "save_stats",
                          ![c].stats = RecordStats(_load_profile_stats, rec[c].profile_id,
                                                   rec[c].emails_found, rec[c].now)]
    /\ UNCHANGED <<disk, completed, mail>>
    /\ UNCHANGED <<file_config, current_config, is_running, scheduler_thread, jobs,
                   built, modal, gui, saver, runs, manual, last, quiet, job, store>>

\* Line 458, _save_profile_stats (lines 762-777): profile_stats.json is
\* written anew from the dict, and the call returns.
RecSaveStats(c) ==
    /\ rec[c].pc = "save_stats"
    /\ disk' = [disk EXCEPT !.stats = rec[c].stats]
    /\ completed' = [completed EXCEPT ![rec[c].profile_id] =
                        Append(@, [timestamp |-> rec[c].now,
                                   emails_found |-> rec[c].emails_found])]
    /\ rec' = [rec EXCEPT ![c] = IdleRec]
    /\ UNCHANGED mail
    /\ UNCHANGED <<file_config, current_config, is_running, scheduler_thread, jobs,
                   built, modal, gui, saver, runs, manual, last, quiet, job, store>>

\* ------------------------------------- search_multiple_profiles in detail
\* The profiles of one call of search_multiple_profiles, at most MaxBatch,
\* with their ids in the order of the list.
MaxBatch == 3

BatchIds == <<"p1", "p2", "p3", "p4">>

\* A search_title that is no string: load_profiles (profile_service.py
\* lines 367-382) cleans the strings of a profile and keeps every other
\* value as it is, and import_profiles (lines 634-663) stores the profiles
\* of the imported file without looking at their search_title.
NotAString == "<null>"

SearchTitles == {"Factura", "  ", NotAString}

\* str.strip of a search_title.
strip(text) == IF text \in {"", " ", "  "} THEN "" ELSE text

\* The lists search_multiple_profiles is called with.
Batches ==
    UNION {[1..n -> [is_active : BOOLEAN, search_title : SearchTitles]] : n \in 0..MaxBatch}

ProfileOf(batch, i) ==
    [id |-> BatchIds[i], is_active |-> batch[i].is_active,
     search_title |-> batch[i].search_title]

\* What the mail server answers to one SEARCH: typ OK and the messages
\* found, or an error (an exception of imaplib or a typ that is not OK).
SearchAnswers == [ok : BOOLEAN, count : EmailCounts]

\* How _connect_imap ends.
ConnectOutcomes == {"ok", "incomplete", "dns", "timeout", "auth"}

Message(text, detail) == [text |-> text, detail |-> detail]

\* The result of one profile, lines 76-81, 88-93, 98-103, 109-114, 118-123,
\* 135-140, without its profile_name.
Result(success, emails_found, message) ==
    [success |-> success, emails_found |-> emails_found, message |-> message]

\* An EmailSearchService object as __init__ leaves it (lines 16-19), with
\* what it has done so far: calls of _connect_imap and the success of the
\* last one (line 72), IMAP4_SSL connections opened, connections logged
\* out, the profiles a SEARCH was sent for, the profiles whose SEARCH
\* failed, the number of search criteria built and the last of them.
IdleMail ==
    [pc |-> "idle", profiles |-> <<>>, i |-> 0, results |-> <<>>,
     connection |-> "none", success |-> FALSE, connects |-> 0, opened |-> 0,
     closed |-> 0, searched |-> <<>>, failed |-> {},
     compiled |-> [search_title |-> <<>>, day |-> 0, criteria |-> <<>>,
                   before |-> <<>>]]

\* _connect_imap, lines 201-243.  The credentials are checked before the
\* connection is made; IMAP4_SSL(imap_server) is assigned to
\* self.connection before login and select, and an exception of either is
\* answered with (False, message) and nothing else.
_connect_imap(m, how) ==
    LET c == [m EXCEPT !.connects = @ + 1] IN
    CASE how = "ok" ->
            [mail |-> [c EXCEPT !.connection = "set", !.opened = @ + 1],
             success |-> TRUE, message |-> "Conexion IMAP establecida"]
      [] how = "incomplete" ->
            [mail |-> c, success |-> FALSE, message |-> "Credenciales incompletas"]
      [] how = "dns" ->
            [mail |-> c, success |-> FALSE,
             message |-> "Error de DNS. Verifique el servidor"]
      [] how = "timeout" ->
            [mail |-> c, success |-> FALSE, message |-> "Tiempo de conexion agotado"]
      [] how = "auth" ->
            [mail |-> [c EXCEPT !.connection = "set", !.opened = @ + 1],
             success |-> FALSE, message |-> "Error de autenticacion IMAP"]

\* _disconnect_imap, lines 245-255: close and logout of the connection when
\* there is one, and self.connection = None.
_disconnect_imap(m) ==
    [m EXCEPT !.connection = "none",
              !.closed = IF m.connection = "set" THEN @ + 1 ELSE @]

\* _search_emails_by_subject_flexible, lines 257-295: 0 without a
\* connection, 0 when the SEARCH raises or its typ is not OK, otherwise the
\* number of messages found.
_search_emails_by_subject_flexible(m, profile_id, answer) ==
    IF m.connection = "none" THEN [mail |-> m, emails_found |-> 0]
    ELSE
        [mail |-> [m EXCEPT !.searched = Append(@, profile_id),
                            !.failed = IF answer.ok THEN @ ELSE @ \cup {profile_id}],
         emails_found |-> IF answer.ok THEN answer.count ELSE 0]

\* The ids of the profiles of the call.
BatchIdsOf(m) == {m.profiles[k].id : k \in DOMAIN m.profiles}

\* results[profile["id"]] = result
SetResult(results, profile_id, result) ==
    [p \in DOMAIN results \cup {profile_id} |->
        IF p = profile_id THEN result ELSE results[p]]

\* Lines 75-82: the result of a connection that was not made, for every
\* profile.
ConnectErrorResults(m, message) ==
    [p \in BatchIdsOf(m) |-> Result(FALSE, 0, Message("Error conectando", message))]

\* Lines 128-140, the outer except: _disconnect_imap, and the result of a
\* general error for every profile that has none.
GeneralError(m) ==
    LET d == _disconnect_imap(m) IN
    [d EXCEPT !.pc = "returned",
              !.results = [p \in BatchIdsOf(m) |->
                              IF p \in DOMAIN m.results THEN m.results[p]
                              ELSE Result(FALSE, 0, Message("Error general", "exception"))]]

\* A slip of lines 96-104: a profile with a blank search_title is searched.
SearchOne_searches_blank(m, answer) ==
    LET profile == m.profiles[m.i]
        next == [m EXCEPT !.i = @ + 1] IN
    IF ~profile.is_active THEN
        [next EXCEPT !.results =
            SetResult(@, profile.id, Result(FALSE, 0, Message("Perfil inactivo", "")))]
    ELSE IF profile.search_title = NotAString THEN
        [next EXCEPT !.results =
            SetResult(@, profile.id,
                      Result(FALSE, 0, Message("Error en busqueda", "AttributeError")))]
    ELSE
        LET s == _search_emails_by_subject_flexible(next, profile.id, answer) IN
        [s.mail EXCEPT !.results =
            SetResult(@, profile.id,
                      Result(TRUE, s.emails_found,
                             Message("Busqueda completada", ToString(s.emails_found))))]

\* Lines 86-123, one turn of the loop: the profile is skipped when it is
\* not active or its search_title is blank, otherwise it is searched; an
\* exception of the turn (strip of a search_title that is no string) gives
\* the profile the result of an error.
SearchOne(m, answer) ==
    LET profile == m.profiles[m.i]
        next == [m EXCEPT !.i = @ + 1] IN
    IF ~profile.is_active THEN
        [next EXCEPT !.results =
            SetResult(@, profile.id, Result(FALSE, 0, Message("Perfil inactivo", "")))]
    ELSE IF profile.search_title = NotAString THEN
        [next EXCEPT !.results =
            SetResult(@, profile.id,
                      Result(FALSE, 0, Message("Error en busqueda", "AttributeError")))]
    ELSE IF strip(profile.search_title) = "" THEN
        [next EXCEPT !.results =
            SetResult(@, profile.id,
                      Result(FALSE, 0, Message("Perfil sin criterio de busqueda", "")))]
    ELSE
        LET s == _search_emails_by_subject_flexible(next, profile.id, answer) IN
        [s.mail EXCEPT !.results =
            SetResult(@, profile.id,
                      Result(TRUE, s.emails_found,
                             Message("Busqueda completada", ToString(s.emails_found))))]

\* search_multiple_profiles(profiles, credentials) is called on the object.
SearchBegin(batch) ==
    /\ mail.pc = "idle"
    /\ mail' = [mail EXCEPT !.pc = "connect",
                            !.profiles = [k \in DOMAIN batch |-> ProfileOf(batch, k)],
                            !.i = 1]
    /\ UNCHANGED <<file_config, current_config, is_running, scheduler_thread, jobs,
                   built, modal, gui, saver, runs, manual, last, quiet, job, store,
                   disk, rec, completed>>

\* A slip of lines 73-82: the profiles are searched also when the
\* connection was not made.
SearchConnect_goes_on(how) ==
    /\ mail.pc = "connect"
    /\ LET c == _connect_imap(mail, how) IN
       mail' = [c.mail EXCEPT !.pc = "profiles", !.success = c.success]
    /\ UNCHANGED <<file_config, current_config, is_running, scheduler_thread, jobs,
                   built, modal, gui, saver, runs, manual, last, quiet, job, store,
                   disk, rec, completed>>

\* Lines 70-82: one call of _connect_imap; when it fails every profile gets
\* the result of the failure and the call returns.
SearchConnect(how) ==
    /\ mail.pc = "connect"
    /\ LET c == _connect_imap(mail, how) IN
       mail' = IF c.success THEN [c.mail EXCEPT !.pc = "profiles", !.success = TRUE]
               ELSE [c.mail EXCEPT !.pc = "returned", !.success = FALSE,
                                   !.results = ConnectErrorResults(c.mail, c.message)]
    /\ UNCHANGED <<file_config, current_config, is_running, scheduler_thread, jobs,
                   built, modal, gui, saver, runs, manual, last, quiet, job, store,
                   disk, rec, completed>>

\* Lines 85-123, the next profile of the list; general says that an
\* exception leaves the try of the profile (it is raised in its except,
\* lines 117-123) and comes to the outer except.
SearchProfile(answer, general) ==
    /\ mail.pc = "profiles"
    /\ mail.i <= Len(mail.profiles)
    /\ mail' = IF general THEN GeneralError(mail) ELSE SearchOne(mail, answer)
    /\ UNCHANGED <<file_config, current_config, is_running, scheduler_thread, jobs,
                   built, modal, gui, saver, runs, manual, last, quiet, job, store,
                   disk, rec, completed>>

\* Lines 125-126 and 142: after the loop _disconnect_imap, and the results
\* are returned.
SearchDisconnect ==
    /\ mail.pc = "profiles"
    /\ mail.i > Len(mail.profiles)
    /\ mail' = [_disconnect_imap(mail) EXCEPT !.pc = "returned"]
    /\ UNCHANGED <<file_config, current_config, is_running, scheduler_thread, jobs,
                   built, modal, gui, saver, runs, manual, last, quiet, job, store,
                   disk, rec, completed>>

\* --------------------------------------- _build_flexible_search_criteria
\* A search_title is the sequence of its words (the title is stored
\* stripped and cleaned, profile_service.py lines 52-53, and its words are
\* separated by spaces: tabs and newlines are refused, lines 232-235).
\* The titles followed have at most MaxWords words of the vocabulary: four
\* words that count, a stop word written with a capital and a word of one
\* character.
MaxWords == 4

\* The words a stored title is made of.  A title is the sequence of the
\* pieces between its spaces: an empty piece stands for two spaces in a row,
\* or for a space at an end.
Vocabulary == {"Pedido", "Confirmacion", "Urgente", "A#o", "De", "x", "#"}

\* _clean_string of a title, lines 628-650 (and profile_service.py lines
\* 779-813): the characters that are not ASCII are lost, the spaces stay.
clean_title_string(text) == [k \in DOMAIN text |-> _clean_string(text[k])]

\* str.strip of a title: the spaces at both ends are removed.
RECURSIVE StripTitle(_)
StripTitle(text) ==
    IF text = <<>> THEN <<>>
    ELSE IF Head(text) = "" THEN StripTitle(Tail(text))
    ELSE IF text[Len(text)] = "" THEN StripTitle(SubSeq(text, 1, Len(text) - 1))
    ELSE text

\* str.split of a title: the words between the spaces.
split(text) == SelectSeq(text, LAMBDA w : w # "")

\* str.lower of a word or a name.
lower(word) ==
    CASE word = "Pedido" -> "pedido"
      [] word = "Confirmacion" -> "confirmacion"
      [] word = "Urgente" -> "urgente"
      [] word = "Ao" -> "ao"
      [] word = "De" -> "de"
      [] word \in {"Ventas", "VENTAS"} -> "ventas"
      [] word = "Compras" -> "compras"
      [] OTHER -> word

\* len(word) >= 2 of a word.
AtLeastTwoChars(word) == word \notin {"x", ""}

\* Line 393.
stop_words ==
    {"de", "en", "el", "la", "los", "las", "un", "una", "y", "o", "a", "con",
     "por", "para"}

\* The titles profiles.json can hold.
StoredTitles(n) == UNION {[1..k -> Vocabulary] : k \in 1..n}

\* The days a search can begin at, and strftime("%d-%b-%Y") of a day
\* (lines 274-275).
Days == {1, 2}

strftime(day) == <<"01-Jan-2024", "02-Jan-2024">>[day]

\* The words of the IMAP search string that is returned: an atom, or a
\* quoted string with the pieces of a title in it.
Atom(text) == [k |-> "atom", v |-> <<text>>]

Quoted(words) == [k |-> "str", v |-> words]

\* ' '.join of SUBJECT "word" for every word, lines 416-419 and 424-427.
RECURSIVE JoinSubjects(_)
JoinSubjects(words) ==
    IF words = <<>> THEN <<>>
    ELSE <<Atom("SUBJECT"), Quoted(<<Head(words)>>)>> \o JoinSubjects(Tail(words))

\* Lines 394-403: the words of at least 2 characters that are no stop
\* words; when there is none, the words of at least 2 characters.
SignificantWords(all_words) ==
    LET significant_words ==
            SelectSeq(all_words,
                      LAMBDA w : AtLeastTwoChars(lower(w)) /\ lower(w) \notin stop_words) IN
    IF Len(significant_words) = 0
    THEN SelectSeq(all_words, LAMBDA w : AtLeastTwoChars(w))
    ELSE significant_words

\* significant_words[:3], line 423.
FirstThree(words) == SubSeq(words, 1, IF Len(words) < 3 THEN Len(words) ELSE 3)

\* A slip of lines 434-439: the alternative of the first three words is
\* added whatever the number of words.
combined_criteria_always_three(clean_title, significant_words) ==
    <<Atom("OR"), Atom("OR"), Atom("SUBJECT"), Quoted(clean_title), Atom("(")>>
        \o JoinSubjects(significant_words) \o <<Atom(")"), Atom("(")>>
        \o JoinSubjects(FirstThree(significant_words)) \o <<Atom(")")>>

\* A slip of line 436: the two alternatives are joined without OR, so that
\* both are required.
combined_criteria_no_or(clean_title, significant_words) ==
    <<Atom("SUBJECT"), Quoted(clean_title), Atom("(")>>
        \o JoinSubjects(significant_words) \o <<Atom(")")>>

\* A slip of lines 434-439: the alternative of the first three words is
\* never added.
combined_criteria_never_three(clean_title, significant_words) ==
    <<Atom("OR"), Atom("SUBJECT"), Quoted(clean_title), Atom("(")>>
        \o JoinSubjects(significant_words) \o <<Atom(")")>>

\* Lines 412-439: the full title, every significant word, and with more
\* than 3 significant words the first 3 of them, joined with OR.
combined_criteria(clean_title, significant_words) ==
    LET phrase_criteria == <<Atom("SUBJECT"), Quoted(clean_title)>>
        words_criteria == JoinSubjects(significant_words)
        key_words == FirstThree(significant_words)
        key_words_criteria == JoinSubjects(key_words) IN
    IF Len(significant_words) <= 3 THEN
        <<Atom("OR")>> \o phrase_criteria
            \o <<Atom("(")>> \o words_criteria \o <<Atom(")")>>
    ELSE
        <<Atom("OR"), Atom("OR")>> \o phrase_criteria
            \o <<Atom("(")>> \o words_criteria \o <<Atom(")")>>
            \o <<Atom("(")>> \o key_words_criteria \o <<Atom(")")>>

\* A slip of lines 445-447: a title of one word is also searched in small
\* letters.
simple_criteria_or_lower(clean_title, date_str) ==
    <<Atom("("), Atom("OR"), Atom("SUBJECT"), Quoted(clean_title),
      Atom("SUBJECT"), Quoted(<<lower(clean_title[1])>>),
      Atom("SINCE"), Quoted(<<date_str>>), Atom(")")>>

\* Lines 445-447: the title without a space in it, and the date.
simple_criteria(clean_title, date_str) ==
    <<Atom("("), Atom("SUBJECT"), Quoted(clean_title),
      Atom("SINCE"), Quoted(<<date_str>>), Atom(")")>>

\* A slip: the title is left out when the object has built a criteria
\* before.
_build_flexible_search_criteria_once(m, search_title, date_str) ==
    IF m.compiled.criteria = <<>> THEN simple_criteria(search_title, date_str)
    ELSE <<Atom("SINCE"), Quoted(<<date_str>>)>>

\* _build_flexible_search_criteria(self, search_title, date_str), lines
\* 369-458, for a title that is a string: the except of lines 449-458 is
\* not reached.  Of self only _clean_string is used.
_build_flexible_search_criteria(m, search_title, date_str) ==
    LET clean_title == clean_title_string(StripTitle(search_title))
        since == <<Atom("SINCE"), Quoted(<<date_str>>)>> IN
    IF clean_title \in {<<>>, <<"">>} THEN since
    ELSE IF Len(clean_title) > 1 THEN
        LET all_words == split(clean_title)
            significant_words == SignificantWords(all_words) IN
        IF Len(significant_words) = 1 THEN
            <<Atom("("), Atom("SUBJECT"), Quoted(<<significant_words[1]>>)>>
                \o since \o <<Atom(")")>>
        ELSE IF Len(significant_words) > 1 THEN
            <<Atom("(")>> \o combined_criteria(clean_title, significant_words)
                \o since \o <<Atom(")")>>
        ELSE since
    ELSE simple_criteria(clean_title, date_str)

\* The search key the mail server reads from a SEARCH command (line 282,
\* self.connection.search): SUBJECT string, SINCE date, OR key key, or a
\* list of keys in parentheses, all of which must hold.  A command it
\* cannot read is answered with BAD.
Node(op, args, lit) == [op |-> op, args |-> args, lit |-> lit]

BadKey == [node |-> Node("bad", <<>>, <<>>), pos |-> 0]

RECURSIVE ParseKey(_, _)
RECURSIVE ParseKeys(_, _, _)
ParseKey(toks, pos) ==
    IF pos = 0 \/ pos > Len(toks) \/ toks[pos].k # "atom" THEN BadKey
    ELSE
        LET atom == toks[pos].v[1] IN
        IF atom \in {"SUBJECT", "SINCE"} THEN
            IF pos + 1 <= Len(toks) /\ toks[pos + 1].k = "str"
            THEN [node |-> Node(IF atom = "SUBJECT" THEN "subject" ELSE "since",
                                <<>>, toks[pos + 1].v),
                  pos |-> pos + 2]
            ELSE BadKey
        ELSE IF atom = "OR" THEN
            LET a == ParseKey(toks, pos + 1)
                b == ParseKey(toks, a.pos) IN
            IF a.pos = 0 \/ b.pos = 0 THEN BadKey
            ELSE [node |-> Node("or", <<a.node, b.node>>, <<>>), pos |-> b.pos]
        ELSE IF atom = "(" THEN ParseKeys(toks, pos + 1, <<>>)
        ELSE BadKey

ParseKeys(toks, pos, keys) ==
    IF pos > Len(toks) THEN BadKey
    ELSE IF toks[pos] = Atom(")") THEN
        IF keys = <<>> THEN BadKey
        ELSE [node |-> Node("and", keys, <<>>), pos |-> pos + 1]
    ELSE
        LET a == ParseKey(toks, pos) IN
        IF a.pos = 0 THEN BadKey ELSE ParseKeys(toks, a.pos, Append(keys, a.node))

\* The keys of a whole command, all of which must hold.
RECURSIVE ParseCommand(_, _, _)
ParseCommand(toks, pos, keys) ==
    IF pos > Len(toks) THEN
        IF keys = <<>> THEN BadKey.node
        ELSE IF Len(keys) = 1 THEN keys[1] ELSE Node("and", keys, <<>>)
    ELSE
        LET a == ParseKey(toks, pos) IN
        IF a.pos = 0 THEN BadKey.node ELSE ParseCommand(toks, a.pos, Append(keys, a.node))

\* The day of a date string, as the mail server reads it.
DayOf(text) == CHOOSE day \in Days : strftime(day) = text

\* A message of the mailbox: the words its subject contains, without regard
\* to case (words of the title and other text), the titles of several
\* words it contains as they are written, and the day it was received.
Messages(search_title) ==
    LET title_words ==
            {lower(search_title[k]) :
                k \in {i \in DOMAIN search_title : search_title[i] # ""}} IN
    {msg \in [words : SUBSET (title_words \cup {"re:"}),
              phrases : SUBSET {search_title}, date : Days] :
        msg.phrases # {} => title_words \subseteq msg.words}

\* The subject of the message contains the string.
SubjectContains(msg, lit) ==
    IF Len(lit) = 1 THEN lower(lit[1]) \in msg.words ELSE lit \in msg.phrases

\* The message is one the SEARCH with this key returns.
RECURSIVE Holds(_, _)
Holds(node, msg) ==
    CASE node.op = "subject" -> SubjectContains(msg, node.lit)
      [] node.op = "since" -> msg.date >= DayOf(node.lit[1])
      [] node.op = "or" -> \E k \in DOMAIN node.args : Holds(node.args[k], msg)
      [] node.op = "and" -> \A k \in DOMAIN node.args : Holds(node.args[k], msg)
      [] OTHER -> FALSE

\* The title of a profile as search_by_profile hands it on: load_profiles
\* cleans the strings of the profile (profile_service.py lines 368-374) and
\* line 34 strips the title.
LoadedTitle(stored_title) == StripTitle(clean_title_string(stored_title))

\* search_by_profile, lines 34-36 and 44, and
\* _search_emails_by_subject_flexible, lines 270-278: a title that is not
\* empty is searched on an object with a connection; the date string of the day the search begins at is
\* made and the criteria is built.  The model remembers in before the
\* criteria the object built the time before, when that was for the same
\* title and day.
Compile(stored_title, day) ==
    /\ mail.pc = "idle"
    /\ mail.connection = "set"
    /\ LoadedTitle(stored_title) # <<>>
    /\ mail' = [mail EXCEPT
                   !.compiled =
                       [search_title |-> LoadedTitle(stored_title), day |-> day,
                        criteria |-> _build_flexible_search_criteria(
                                         mail, LoadedTitle(stored_title),
                                         strftime(day)),
                        before |->
                            IF /\ mail.compiled.criteria # <<>>
                               /\ mail.compiled.search_title = LoadedTitle(stored_title)
                               /\ mail.compiled.day = day
                            THEN <<mail.compiled.criteria>> ELSE <<>>]]
    /\ UNCHANGED <<file_config, current_config, is_running, scheduler_thread, jobs,
                   built, modal, gui, saver, runs, manual, last, quiet, job, store,
                   disk, rec, completed>>

\* search_by_profile, lines 38-41: the object connects before a search.
CompileConnect(how) ==
    /\ mail.pc = "idle"
    /\ mail.connection = "none"
    /\ mail.connects = 0
    /\ mail' = _connect_imap(mail, how).mail
    /\ UNCHANGED <<file_config, current_config, is_running, scheduler_thread, jobs,
                   built, modal, gui, saver, runs, manual, last, quiet, job, store,
                   disk, rec, completed>>

\* search_by_profile, line 47: the object disconnects after it.
CompileDisconnect ==
    /\ mail.pc = "idle"
    /\ mail.connection = "set"
    /\ mail' = _disconnect_imap(mail)
    /\ UNCHANGED <<file_config, current_config, is_running, scheduler_thread, jobs,
                   built, modal, gui, saver, runs, manual, last, quiet, job, store,
                   disk, rec, completed>>

\* ------------------------------------------- the operations on the profiles
\* The names profiles are given; two of them are equal but for the case of
\* their letters.
Names == {"Ventas", "VENTAS", "Compras"}

\* Runs and manual searches followed while profiles are created, changed
\* and deleted.
MaxSearches == 1

\* uuid.uuid4(), line 82: an id that is nowhere in the files and in no call
\* that is being made.
UsedIds ==
    DOMAIN disk.profiles \cup DOMAIN disk.stats
        \cup UNION {DOMAIN rec[c].profiles \cup DOMAIN rec[c].stats
                        \cup ({rec[c].profile_id} \ {""}) : c \in Callers}

uuid4 == CHOOSE id \in Profiles \ UsedIds : TRUE

\* Lines 76-79 and 152-156: a profile other than the one with this id has
\* the name, the case of the letters left aside.
NameTaken(profiles, profile_id, name) ==
    \E p \in DOMAIN profiles \ {profile_id} : lower(profiles[p].name) = lower(name)

\* _init_profile_stats, lines 703-722.
_init_profile_stats(stats, profile_id) ==
    IF profile_id \in DOMAIN stats THEN stats
    ELSE [p \in DOMAIN stats \cup {profile_id} |->
             IF p = profile_id THEN ZeroStats ELSE stats[p]]

\* _delete_profile_stats, lines 724-737.
_delete_profile_stats(stats, profile_id) ==
    [p \in DOMAIN stats \ {profile_id} |-> stats[p]]

\* The handlers of the window run on its thread, one after the other; each
\* is followed as one step between the file accesses of the searches.
\* create_profile(name, search_title), lines 30-109, with a name and a
\* search_title that are valid: when a profile has the name the call raises
\* and nothing is written.
create_profile(name) ==
    /\ Profiles \ UsedIds # {}
    /\ ~NameTaken(load_profiles, "", name)
    /\ disk' = [profiles |->
                    [p \in DOMAIN load_profiles \cup {uuid4} |->
                        IF p = uuid4 THEN StoredProfile(name) ELSE load_profiles[p]],
                stats |-> _init_profile_stats(_load_profile_stats, uuid4)]
    /\ UNCHANGED <<rec, completed, mail>>
    /\ UNCHANGED <<file_config, current_config, is_running, scheduler_thread, jobs,
                   built, modal, gui, saver, runs, manual, last, quiet, job, store>>

\* update_profile(profile_id, name=name), lines 111-196: when the profile is
\* not found or another profile has the name the call raises and nothing
\* is written.
update_profile(profile_id, name) ==
    /\ profile_id \in DOMAIN load_profiles
    /\ ~NameTaken(load_profiles, profile_id, name)
    /\ disk' = [disk EXCEPT !.profiles = [load_profiles EXCEPT ![profile_id].name = name]]
    /\ UNCHANGED <<rec, completed, mail>>
    /\ UNCHANGED <<file_config, current_config, is_running, scheduler_thread, jobs,
                   built, modal, gui, saver, runs, manual, last, quiet, job, store>>

\* delete_profile(profile_id), lines 276-314: the profile is taken out of
\* profiles.json and its record out of profile_stats.json.
delete_profile(profile_id) ==
    /\ profile_id \in DOMAIN load_profiles
    /\ disk' = [profiles |-> [p \in DOMAIN load_profiles \ {profile_id} |-> load_profiles[p]],
                stats |-> _delete_profile_stats(_load_profile_stats, profile_id)]
    /\ UNCHANGED <<rec, completed, mail>>
    /\ UNCHANGED <<file_config, current_config, is_running, scheduler_thread, jobs,
                   built, modal, gui, saver, runs, manual, last, quiet, job, store>>

\* The files that are imported: one or two profiles with ids of their own
\* and no statistics.
ImportFiles ==
    {imported \in UNION {[S -> Names] : S \in SUBSET Profiles} : DOMAIN imported # {}}

\* Lines 644-653: the imported profiles with a name that no profile of
\* profiles.json has are added to the ones of profiles.json.
MergeProfiles(existing_profiles, imported_profiles) ==
    LET existing_names ==
            {lower(existing_profiles[p].name) : p \in DOMAIN existing_profiles}
        added ==
            {p \in DOMAIN imported_profiles :
                lower(imported_profiles[p]) \notin existing_names} IN
    [p \in DOMAIN existing_profiles \cup added |->
        IF p \in DOMAIN existing_profiles THEN existing_profiles[p]
        ELSE StoredProfile(imported_profiles[p])]

\* import_profiles(import_path, merge), lines 612-667, of a file whose
\* profiles have ids that are in no file.
import_profiles(imported, merge) ==
    /\ DOMAIN imported \cap UsedIds = {}
    /\ disk' = IF merge
               THEN [disk EXCEPT !.profiles = MergeProfiles(load_profiles, imported)]
               ELSE [profiles |-> [p \in DOMAIN imported |-> StoredProfile(imported[p])],
                     stats |-> <<>>]
    /\ UNCHANGED <<rec, completed, mail>>
    /\ UNCHANGED <<file_config, current_config, is_running, scheduler_thread, jobs,
                   built, modal, gui, saver, runs, manual, last, quiet, job, store>>

\* A scheduled run (scheduler_service.py lines 233-234) or a manual search
\* (gui/profile_manager.py line 495) of thread c reads the profiles it is
\* going to search.
SearchLoad(c) ==
    /\ rec[c].pc = "idle"
    /\ CallsCompleted + CallsInFlight < MaxSearches
    /\ load_profiles # <<>>
    /\ rec' = [rec EXCEPT ![c] = [IdleRec EXCEPT !.pc = "searching",
                                                 !.profiles = load_profiles]]
    /\ UNCHANGED <<disk, completed, mail>>
    /\ UNCHANGED <<file_config, current_config, is_running, scheduler_thread, jobs,
                   built, modal, gui, saver, runs, manual, last, quiet, job, store>>

\* scheduler_service.py line 257 and gui/profile_manager.py line 552: after
\* the search the thread calls update_profile_execution for a profile it
\* has read.
SearchRecord(c, profile_id, emails_found) ==
    /\ rec[c].pc = "searching"
    /\ profile_id \in DOMAIN rec[c].profiles
    /\ rec' = [rec EXCEPT ![c] =
                  [IdleRec EXCEPT !.pc = "load_profiles",
                                  !.profile_id = profile_id,
                                  !.emails_found = emails_found,
                                  !.now = CallsCompleted + CallsInFlight]]
    /\ UNCHANGED <<disk, completed, mail>>
    /\ UNCHANGED <<file_config, current_config, is_running, scheduler_thread, jobs,
                   built, modal, gui, saver, runs, manual, last, quiet, job, store>>

\* ---------------------------------------------------------- specification
\* The state after ProfileManager.__init__ has built its service (line 33):
\* the constructor of the service has loaded the file.
SchedulerInit ==
    /\ file_config \in InitialFiles
    /\ current_config = [o \in Objects |-> IF o = PM THEN file_config ELSE NoneConfig]
    /\ is_running = [o \in Objects |-> FALSE]
    /\ scheduler_thread = [o \in Objects |-> "none"]
    /\ jobs = <<>>
    /\ built = 1
    /\ modal = 0
    /\ gui = "init"
    /\ saver = IdleSaver
    /\ runs = [r \in RunIds |-> IdleRun]
    /\ manual = IdleRun
    /\ last = [op |-> "none", obj |-> 0, ok |-> TRUE, msg |-> "", arg |-> NoneConfig]
    /\ quiet = [o \in Objects |-> "no"]

\* The two files after create_profile has made the profiles (lines 30-109,
\* with _init_profile_stats, lines 703-722), no thread in
\* update_profile_execution, and an EmailSearchService object that has made
\* no call.
NoRecording ==
    /\ disk = [profiles |-> [p \in Profiles |-> StoredProfile(InitialName(p))],
               stats |-> [p \in Profiles |-> ZeroStats]]
    /\ rec = [c \in Callers |-> IdleRec]
    /\ completed = [p \in Profiles |-> <<>>]
    /\ mail = IdleMail

\* No job run is followed and the profiles are the ones created so far, all
\* active and never executed.
Init ==
    /\ SchedulerInit
    /\ job = IdleJob(0)
    /\ store = [p \in Profiles |-> NewProfile(TRUE)]
    /\ NoRecording

\* The life cycle of the scheduler; a job run is one step.
Next ==
    \/ GuiInit
    \/ GuiStart
    \/ GuiStop
    \/ GuiJoin
    \/ OpenModal
    \/ CloseModal
    \/ \E c \in ModalConfigs : ModalSave(c)
    \/ SaverSave
    \/ SaverStart
    \/ SaverStop
    \/ SaverJoin
    \/ \E i \in 1..7 : BecomeDue(i)
    \/ \E o \in Objects : LoopRun(o)
    \/ \E o \in Objects : LoopExit(o)
    \/ \E r \in RunIds : RunWhole(r)

Spec == Init /\ [][Next]_vars

\* The scheduler of the ProfileManager with the job runs and the manual
\* search followed stage by stage.
RunNext ==
    \/ GuiInit
    \/ GuiStart
    \/ GuiStop
    \/ GuiJoin
    \/ \E i \in 1..7 : BecomeDue(i)
    \/ LoopRun(PM)
    \/ LoopExit(PM)
    \/ \E r \in RunIds : RunSearch(r)
    \/ \E r \in RunIds : RunRecord(r)
    \/ \E r \in RunIds : RunReport(r)
    \/ \E r \in RunIds : RunDispatch(r)
    \/ \E r \in RunIds : RunEnd(r)
    \/ ManualSearch
    \/ ManualStep

\* A worker thread is scheduled by the operating system and every stage of
\* a run returns (the mail calls have timeouts), so a run that can take its
\* next step takes it.
RunStage(r) == RunSearch(r) \/ RunRecord(r) \/ RunReport(r) \/ RunDispatch(r)

RunSpec == Init /\ [][RunNext]_vars /\ \A r \in RunIds : WF_vars(RunStage(r))

\* ------------------------------------- execute_scheduled_search in detail
\* The program starts with an enabled configuration in the file and with
\* profiles that are active or not.
JobInit ==
    /\ SchedulerInit
    /\ Get(file_config, "enabled", FALSE)
    /\ job = IdleJob(0)
    /\ store \in [Profiles -> {NewProfile(TRUE), NewProfile(FALSE)}]
    /\ NoRecording

Stages == {"credentials", "profiles", "search", "record", "report", "ready", "send"}

\* The scheduler of the ProfileManager and the job runs it starts, each
\* followed through execute_scheduled_search.
JobNext ==
    \/ GuiInit
    \/ GuiStart
    \/ GuiStop
    \/ GuiJoin
    \/ \E i \in 1..7 : BecomeDue(i)
    \/ LoopRun(PM)
    \/ LoopExit(PM)
    \/ \E r \in RunIds : JobBegin(r)
    \/ \E pc \in Stages : JobStage(pc)
    \/ JobReturn

JobSpec == JobInit /\ [][JobNext]_vars

\* ------------------------------------------- save_configuration as an API
\* The dicts save_configuration is called with: every type, with and without
\* the keys the type needs, with values in and out of range.
ApiConfigs ==
    {[enabled |-> e, type |-> "daily", time |-> t] :
        e \in BOOLEAN, t \in {"09:00", "9:5", "25:00"}}
    \cup {[enabled |-> e, type |-> "weekly", time |-> "09:00", days |-> d] :
        e \in BOOLEAN, d \in {<<>>, <<"monday">>, <<"monday", "friday">>, <<"funday">>}}
    \cup {[enabled |-> e, type |-> "interval", interval |-> n, unit |-> u] :
        e \in BOOLEAN, n \in {-1, 0, 2}, u \in {"minutes", "hours", "days"}}
    \cup {[enabled |-> e, type |-> t] : e \in BOOLEAN, t \in {"daily", "weekly", "monthly", "daily#"}}
    \cup {[enabled |-> e, type |-> "weekly", time |-> "09:00"] : e \in BOOLEAN}
    \cup {[enabled |-> e, type |-> "interval", interval |-> 2] : e \in BOOLEAN}
    \cup {[type |-> "daily", time |-> "09:00"], [enabled |-> TRUE]}

\* One call of save_configuration on the service of the ProfileManager.
ApiSave(config) ==
    /\ save_configuration(PM, config)
    /\ UNCHANGED <<is_running, scheduler_thread, jobs, built, modal, gui, saver, runs,
                   manual, quiet>>
    /\ UNCHANGED <<job, store, disk, rec, completed, mail>>

SaveNext == \E c \in ApiConfigs : ApiSave(c)

SaveSpec == Init /\ [][SaveNext]_vars

\* ------------------------------------------- update_profile_execution alone
\* The profiles exist; profile_stats.json has a record for the ones whose
\* record was made when they were created and none for the others (the file
\* was removed or could not be written).
RecordInit ==
    /\ SchedulerInit
    /\ file_config = NoneConfig
    /\ job = IdleJob(0)
    /\ store = [p \in Profiles |-> NewProfile(TRUE)]
    /\ disk \in {[profiles |-> [p \in Profiles |-> StoredProfile(InitialName(p))],
                   stats |-> [p \in S |-> ZeroStats]] : S \in SUBSET Profiles}
    /\ rec = [c \in Callers |-> IdleRec]
    /\ completed = [p \in Profiles |-> <<>>]
    /\ mail = IdleMail

\* What the n-th call records and for which profile: any profile and any
\* count in the first calls and any count in the last ones; the calls in
\* between are for the first profile, with counts that differ from call to
\* call.
TargetsAt(n) == IF n <= 2 THEN Profiles ELSE {"p1"}

ValuesAt(n) == IF n <= 2 \/ n >= HistoryLimit THEN EmailCounts ELSE {n % 3}

\* A thread calls update_profile_execution while no other call is made.
RecBeginAlone(c) ==
    /\ CallsCompleted < MaxCalls
    /\ CallsInFlight = 0
    /\ \E profile_id \in TargetsAt(CallsCompleted + 1) :
          \E emails_found \in ValuesAt(CallsCompleted + 1) :
              RecBegin(c, profile_id, emails_found)

\* Calls of update_profile_execution made one after the other.
RecordNext ==
    \/ \E c \in Callers : RecBeginAlone(c)
    \/ \E c \in Callers : RecLoadProfiles(c)
    \/ \E c \in Callers : RecSaveProfiles(c)
    \/ \E c \in Callers : RecLoadStats(c)
    \/ \E c \in Callers : RecSaveStats(c)

RecordSpec == RecordInit /\ [][RecordNext]_vars

\* A thread calls update_profile_execution, whatever the other thread does.
RecBeginAny(c) ==
    /\ CallsCompleted + CallsInFlight < MaxOverlapping
    /\ \E profile_id \in Profiles : \E emails_found \in EmailCounts :
          RecBegin(c, profile_id, emails_found)

\* The worker thread of a scheduled run and the thread of the manual search
\* call update_profile_execution when they come to it; nothing keeps one
\* from calling while the other is in its call.
OverlapNext ==
    \/ \E c \in Callers : RecBeginAny(c)
    \/ \E c \in Callers : RecLoadProfiles(c)
    \/ \E c \in Callers : RecSaveProfiles(c)
    \/ \E c \in Callers : RecLoadStats(c)
    \/ \E c \in Callers : RecSaveStats(c)

OverlapSpec == RecordInit /\ [][OverlapNext]_vars

\* ------------------------------------------- search_multiple_profiles alone
\* One call of search_multiple_profiles on a new EmailSearchService object,
\* as execute_scheduled_search makes it (scheduler_service.py lines
\* 246-247).
SearchInit ==
    /\ SchedulerInit
    /\ file_config = NoneConfig
    /\ job = IdleJob(0)
    /\ store = [p \in Profiles |-> NewProfile(TRUE)]
    /\ NoRecording

SearchNext ==
    \/ \E batch \in Batches : SearchBegin(batch)
    \/ \E how \in ConnectOutcomes : SearchConnect(how)
    \/ \E answer \in SearchAnswers : \E general \in BOOLEAN : SearchProfile(answer, general)
    \/ SearchDisconnect

SearchSpec == SearchInit /\ [][SearchNext]_vars

\* --------------------------------- _build_flexible_search_criteria alone
\* Search criteria are built on one EmailSearchService object, with and
\* without a connection.
\* The first title is any title; the ones after it are the same title
\* again or one of two others.
TitlesAfter(m) ==
    IF m.compiled.criteria = <<>> THEN StoredTitles(MaxWords)
    ELSE {m.compiled.search_title, <<"Pedido">>, <<"Pedido", "Confirmacion">>}

CompileNext ==
    \/ \E stored_title \in TitlesAfter(mail) : \E day \in Days :
          Compile(stored_title, day)
    \/ CompileConnect("ok")
    \/ CompileDisconnect

CompileSpec == SearchInit /\ [][CompileNext]_vars

\* ------------------------------------------------- the profiles in the files
\* profiles.json holds some profiles with names that differ, never
\* executed, and profile_stats.json the record of each.
StoreInit ==
    /\ SchedulerInit
    /\ file_config = NoneConfig
    /\ job = IdleJob(0)
    /\ store = [p \in Profiles |-> NewProfile(TRUE)]
    /\ disk \in {[profiles |-> [p \in S |-> StoredProfile(InitialName(p))],
                   stats |-> [p \in S |-> ZeroStats]] : S \in SUBSET Profiles}
    /\ rec = [c \in Callers |-> IdleRec]
    /\ completed = [p \in Profiles |-> <<>>]
    /\ mail = IdleMail

\* The window creates, changes, deletes and imports profiles while the
\* threads of the searches record their executions.
StoreNext ==
    \/ \E name \in Names : create_profile(name)
    \/ \E profile_id \in Profiles : \E name \in Names : update_profile(profile_id, name)
    \/ \E profile_id \in Profiles : delete_profile(profile_id)
    \/ \E imported \in ImportFiles : \E merge \in BOOLEAN : import_profiles(imported, merge)
    \/ \E c \in Callers : SearchLoad(c)
    \/ \E c \in Callers : \E profile_id \in Profiles : SearchRecord(c, profile_id, 2)
    \/ \E c \in Callers : RecLoadProfiles(c)
    \/ \E c \in Callers : RecSaveProfiles(c)
    \/ \E c \in Callers : RecLoadStats(c)
    \/ \E c \in Callers : RecSaveStats(c)

StoreSpec == StoreInit /\ [][StoreNext]_vars

\* ==================================================================== claims
Range(f) == {f[i] : i \in DOMAIN f}

\* A step in which the loop started at least one job run.
Fired == \E r \in RunIds : runs[r].pc = "idle" /\ runs'[r].pc = "search"

\* C1: while the scheduler stays running, a trigger that fires and starts a
\* job run is still in the trigger list after the firing (rescheduled for
\* its next instant), it does not cancel itself.
C1_FiredTriggerStaysScheduled ==
    [][Fired =>
         \A i \in DueJobs : [jobs[i] EXCEPT !.due = FALSE] \in Range(jobs')]_vars

\* C2: when a configuration with enabled = false has been saved and the
\* save flow of the modal has completed, no scheduler is running and the
\* trigger list is empty.
C2_DisabledSaveStopsScheduler ==
    [][(saver.pc \in {"restart", "join"} /\ ~saver.config["enabled"] /\ saver'.pc = "idle")
         => /\ \A o \in Objects : ~is_running'[o]
            /\ jobs' = <<>>]_vars

\* The polling loops that are alive and checking due triggers.
LiveLoops == {o \in Objects : scheduler_thread[o] = "alive" /\ is_running[o]}

\* C3: at most one polling loop is alive and checking due triggers, whatever
\* the sequence of starts and stops and whichever service object made them.
C3_AtMostOneLoop == Cardinality(LiveLoops) <= 1

\* The orchestrator runs in flight: scheduled job runs and the manual search.
RunsInFlight ==
    Cardinality({r \in RunIds : InFlight(runs[r])}) + (IF InFlight(manual) THEN 1 ELSE 0)

\* C4: at most one orchestrator run, scheduled or manual, is in flight.
C4_AtMostOneRunInFlight == RunsInFlight <= 1

\* The state of the schedulers a stop_scheduler call may change.
SchedulerState == <<file_config, current_config, is_running, scheduler_thread, jobs, runs>>

\* C5: a stop_scheduler call on an object that is not running returns
\* success and changes nothing; a call on a running object returns success,
\* and from its return until a start_scheduler call succeeds again the
\* trigger list is empty, is_running of the object is false, its loop thread
\* has ended and the scheduler starts no job run.
C5_StopStopsUntilNextStart ==
    [][/\ (last' # last /\ last'.op = "stop") =>
             /\ last'.ok
             /\ last'.msg = MsgNotRunning =>
                   /\ ~is_running[last'.obj]
                   /\ UNCHANGED SchedulerState
             /\ last'.msg = MsgStopped =>
                   /\ ~is_running'[last'.obj]
                   /\ scheduler_thread'[last'.obj] # "alive"
       /\ \A o \in Objects :
             quiet'[o] = "stopped" =>
                 /\ jobs' = <<>>
                 /\ ~is_running'[o]
                 /\ scheduler_thread'[o] # "alive"
                 /\ quiet[o] = "stopped" => ~Fired]_vars

\* C5 happens: a running scheduler was stopped, the call has returned, and
\* no start has succeeded since.
C5_Witness ==
    /\ last.op = "stop"
    /\ last.msg = MsgStopped
    /\ quiet[last.obj] = "stopped"
    /\ scheduler_thread[last.obj] = "dead"

\* A step that stops a running scheduler.
Stops == \E o \in Objects : is_running[o] /\ ~is_running'[o]

\* The stages a worker thread can be in one step after stage pc.
StagesAfter(pc) ==
    CASE pc = "search" -> {"search", "record", "done"}
      [] pc = "record" -> {"record", "report", "done"}
      [] pc = "report" -> {"report", "dispatch", "done"}
      [] pc = "dispatch" -> {"dispatch", "done"}
      [] OTHER -> {"idle", "search", "done"}

C7_StartNoOpAndFailures ==
    [][(last' # last /\ last'.op = "start") =>
          LET o == last'.obj IN
          /\ is_running[o] =>
                /\ last'.ok
                /\ last'.msg = MsgAlreadyRunning
                /\ UNCHANGED <<jobs, is_running, scheduler_thread>>
          /\ (~is_running[o] /\ IsNone(current_config[o])) =>
                /\ ~last'.ok
                /\ last'.msg = MsgNoConfig
                /\ ~is_running'[o]
                /\ UNCHANGED <<jobs, is_running, scheduler_thread>>
          /\ (~is_running[o] /\ ~IsNone(current_config[o])
                /\ ~Get(current_config[o], "enabled", FALSE)) =>
                /\ ~last'.ok
                /\ last'.msg = MsgDisabled
                /\ ~is_running'[o]
                /\ UNCHANGED <<jobs, is_running, scheduler_thread>>]_vars

\* C7 happens: a start on an object whose configuration is disabled has
\* failed while the triggers of another object's scheduler are in the list.
C7_Witness ==
    /\ last.op = "start"
    /\ ~last.ok
    /\ last.msg = MsgDisabled
    /\ ~is_running[last.obj]
    /\ scheduler_thread[last.obj] = "none"
    /\ jobs # <<>>

\* The trigger list js is the translation of configuration c.
IsTranslation(c, js) ==
    /\ c["type"] = "daily" =>
          /\ Len(js) = 1
          /\ js[1].unit = "days" /\ js[1].interval = 1 /\ js[1].at_time = c["time"]
    /\ c["type"] = "weekly" =>
          /\ Len(js) = Len(c["days"])
          /\ \A i \in DOMAIN js :
                js[i].unit = "weeks" /\ js[i].start_day = c["days"][i] /\ js[i].at_time = c["time"]
    /\ c["type"] = "interval" =>
          /\ Len(js) = 1
          /\ js[1].unit = c["unit"] /\ js[1].interval = c["interval"]
    /\ \A i \in DOMAIN js : ~js[i].due

\* C8: right after a start_scheduler that succeeds from the stopped state
\* the trigger list is the translation of the object's configuration: one
\* trigger for daily, one per listed weekday for weekly, one for interval,
\* and nothing left from an earlier start.
C8_StartTranslatesConfig ==
    [][\A o \in Objects :
          (~is_running[o] /\ is_running'[o]) => IsTranslation(current_config[o], jobs')]_vars

\* C8 happens: the modal's object was started with a weekly configuration of
\* two days while the ProfileManager's scheduler, started from a daily
\* configuration, is running; the list holds the two weekly triggers.
C8_Witness ==
    /\ last.op = "start" /\ last.ok /\ last.msg = MsgStarted /\ last.obj # PM
    /\ is_running[PM] /\ is_running[last.obj]
    /\ current_config[PM]["type"] = "daily"
    /\ current_config[last.obj]["type"] = "weekly"
    /\ Len(jobs) = 2

\* C9: save_configuration rejects a weekly configuration with an empty days
\* list when enabled = true and accepts it when enabled = false.
C9_EmptyWeeklyRejectedWhenEnabled ==
    (/\ last.op = "save"
     /\ Get(last.arg, "type", "") = "weekly"
     /\ Has(last.arg, "enabled") /\ Has(last.arg, "time")
     /\ Get(last.arg, "days", <<"none">>) = <<>>)
        => (last.ok <=> ~last.arg["enabled"])

\* A configuration whose enabled flag is true has a known kind and valid
\* fields for it.
WellFormedWhenEnabled(c) ==
    (~IsNone(c) /\ Get(c, "enabled", FALSE)) =>
        /\ Get(c, "type", "") \in {"daily", "weekly", "interval"}
        /\ c["type"] \in {"daily", "weekly"} =>
              Has(c, "time") /\ StrptimeOK(c["time"])
        /\ c["type"] = "weekly" =>
              /\ Has(c, "days")
              /\ c["days"] # <<>>
              /\ \A i \in DOMAIN c["days"] : c["days"][i] \in valid_days
        /\ c["type"] = "interval" =>
              /\ Has(c, "interval") /\ Has(c, "unit")
              /\ c["interval"] > 0
              /\ c["unit"] \in {"minutes", "hours"}

\* C10: after any sequence of save_configuration calls, a current
\* configuration with enabled = true has a kind among daily, weekly and
\* interval and valid fields for that kind.
C10_EnabledConfigWellFormed ==
    \A o \in Objects : WellFormedWhenEnabled(current_config[o])

\* C11: a save_configuration call that rejects its configuration as invalid
\* raises, and the file, the current configuration of every object, the
\* trigger list and is_running are what they were before the call.
C11_RejectedSaveChangesNothing ==
    [][(saver.pc = "save" /\ saver'.pc # "save" /\ ~_validate_config(saver.config)) =>
          /\ last'.op = "save" /\ ~last'.ok /\ last'.msg = MsgInvalid
          /\ UNCHANGED <<file_config, current_config, jobs, is_running>>]_vars

\* C11 happens: a save was rejected while a scheduler is running with
\* triggers and a configuration is kept in memory and in the file.
C11_Witness ==
    /\ last.op = "save" /\ ~last.ok
    /\ saver.pc = "idle"
    /\ is_running[PM] /\ jobs # <<>>
    /\ ~IsNone(file_config)
    /\ last.obj # PM /\ ~IsNone(current_config[last.obj])

LastEvent(j) == j.events[Len(j.events)]

\* The levels of the status events of a run.
Levels(j) == {j.events[i].level : i \in DOMAIN j.events}

\* C13: an exception raised in a stage of execute_scheduled_search does not
\* leave it: the run ends with a result, (False, message) after an error
\* status event when the outer handler caught it, and no step of a run
\* changes is_running or the loop thread of an object.
C13_RunNeverRaises ==
    /\ [](job.pc = "done" =>
            /\ ~job.escaped
            /\ job.result # NoResult
            /\ job.result.outcome = "error" =>
                  /\ ~job.result.ok
                  /\ LastEvent(job) = [tag |-> "run_error", level |-> "error"])
    /\ [][job' # job => UNCHANGED <<is_running, scheduler_thread>>]_vars

\* C13 happens: the search stage raised after the profiles were loaded, the
\* run has returned a failure and the scheduler is still running.
C13_Witness ==
    /\ job.pc = "done"
    /\ job.result = [ok |-> FALSE, outcome |-> "error"]
    /\ job.calls.profiles_loaded
    /\ job.calls.connects = 0
    /\ is_running[PM] /\ scheduler_thread[PM] = "alive"

\* The outcome of a stage without the record of whether the callback raised.
StripThrew(n) == [job |-> [n.job EXCEPT !.threw = FALSE], store |-> n.store]

\* C14: a status callback that raises changes nothing of a run: on the same
\* answers of its collaborators every stage goes to the same next stage,
\* makes the same update_profile_execution calls and returns the same result
\* as with a callback that returns.
C14_CallbackExceptionHarmless ==
    \A env \in StageEnvs(job.pc) :
        StripThrew(Step(job, store, [env EXCEPT !.throws = TRUE]))
            = StripThrew(Step(job, store, [env EXCEPT !.throws = FALSE]))

\* C14 happens: the callback raised during a run that recorded a profile
\* and sent the report.
C14_Witness ==
    /\ job.pc = "done"
    /\ job.threw
    /\ job.result = [ok |-> TRUE, outcome |-> "sent"]
    /\ job.calls.recorded # <<>>

\* C15: without credentials (no file, or a file that cannot be loaded) the
\* run returns a failure after an error status event and has not loaded the
\* profiles, opened a connection, changed a profile or its statistics, made
\* a report or sent anything.
C15_NoCredentialsFailsFast ==
    /\ job.pc = "credentials" =>
          \A env \in StageEnvs("credentials") :
              env.credentials # "ok" =>
                  LET n == Step(job, store, env) IN
                  /\ n.job.pc = "done"
                  /\ ~n.job.result.ok
                  /\ LastEvent(n.job).level = "error"
                  /\ n.store = store
    /\ (job.pc = "done" /\ job.result.outcome = "no_credentials") =>
          /\ ~job.result.ok
          /\ job.events = <<[tag |-> "no_credentials", level |-> "error"]>>
          /\ job.calls = NoCalls
          /\ store = job.before

\* C15 happens: a run with active profiles ended for want of credentials.
C15_Witness ==
    /\ job.pc = "done"
    /\ job.result.outcome = "no_credentials"
    /\ \E p \in Profiles : store[p].is_active
    /\ is_running[PM]

\* C16: without active profiles the run ends with the no-active-profiles
\* outcome, which is neither an error nor a failure, and it has left the
\* profiles and statistics as they were, opened no connection and made no
\* report.
C16_NoActiveProfilesIsBenign ==
    (job.pc = "done" /\ job.result.outcome = "no_active_profiles") =>
        /\ job.result.ok
        /\ "error" \notin Levels(job)
        /\ store = job.before
        /\ job.calls.connects = 0
        /\ ~job.calls.generated

\* How many times profile p is in the sequence of recorded profiles.
TimesRecorded(j, p) == Cardinality({i \in DOMAIN j.calls.recorded : j.calls.recorded[i] = p})

\* The search of the run has given profile p a result with success = true.
Succeeded(j, p) == p \in DOMAIN j.results /\ j.results[p].success

\* The loop over the results of the run is over.
RecordingOver(j) == j.calls.connects > 0 /\ j.todo = <<>>

\* C17: in a run update_profile_execution is called once for every profile
\* whose result has success = true and never for another profile, whose
\* last_executed and statistics stay what they were before the run.
C17_RecordedExactlyTheSuccessful ==
    job.pc # "idle" =>
        \A p \in Profiles :
            /\ ~Succeeded(job, p) =>
                  /\ TimesRecorded(job, p) = 0
                  /\ store[p] = job.before[p]
            /\ TimesRecorded(job, p) <= 1
            /\ (Succeeded(job, p) /\ RecordingOver(job)) =>
                  /\ TimesRecorded(job, p) = 1
                  /\ store[p].total_executions = job.before[p].total_executions + 1
                  /\ store[p].last_executed = job.id

\* C17 happens: of two searched profiles the second succeeded and the first
\* failed, and the loop over the results is over.
C17_Witness ==
    /\ job.pc = "report"
    /\ job.active = <<"p1", "p2">>
    /\ ~job.results["p1"].success
    /\ job.results["p2"].success
    /\ job.calls.recorded = <<"p2">>

\* C18: when no profile of the run succeeded the run emits the
\* completed-without-results warning and returns success, and it neither
\* makes a report nor sends one.
C18_NoSuccessNoReport ==
    (RecordingOver(job) /\ job.pc # "record" /\ \A p \in Profiles : ~Succeeded(job, p)) =>
        /\ job.pc = "done"
        /\ job.result = [ok |-> TRUE, outcome |-> "no_results"]
        /\ LastEvent(job) = [tag |-> "no_results", level |-> "warning"]
        /\ ~job.calls.generated
        /\ job.calls.sends = 0
        /\ store = job.before

\* C18 happens: two profiles were searched, none succeeded, the run is over.
C18_Witness ==
    /\ job.pc = "done"
    /\ job.result.outcome = "no_results"
    /\ job.active = <<"p1", "p2">>
    /\ job.calls.connects = 1

\* C19: send_report_email is called only when sending is enabled, a
\* recipient is configured and the report file exists; a run that has made
\* its report and finds one of the three missing returns success with the
\* generated-but-not-sent outcome without calling send_report_email.
C19_SendOnlyWhenReady ==
    /\ job.calls.sends > 0 => (job.ready /\ job.calls.generated /\ job.artifact)
    /\ (job.pc = "done" /\ job.calls.generated /\ job.calls.sends = 0
            /\ job.result.outcome # "report_error") =>
          job.result = [ok |-> TRUE, outcome |-> "generated_not_sent"]

\* C20: when a profile of the run succeeded, a report that cannot be made
\* or sent does not fail the run: it returns success and the statistics it
\* recorded stay.
C20_ReportFailureKeepsSuccess ==
    (job.pc = "done" /\ job.calls.recorded # <<>>) =>
        /\ job.result.ok
        /\ \A p \in Profiles :
              TimesRecorded(job, p) = 1 =>
                  store[p].total_executions = job.before[p].total_executions + 1

\* C20 happens: the report could not be made in a run that had recorded a
\* profile.
C20_Witness ==
    /\ job.pc = "done"
    /\ job.result = [ok |-> TRUE, outcome |-> "report_error"]
    /\ ~job.calls.generated
    /\ job.calls.recorded # <<>>

\* C21: when the report was made and send_report_email did not send it, the
\* status event of the failure has level warning and the run has emitted no
\* event of level error.
C21_SendFailureIsWarning ==
    (job.pc = "done" /\ job.result.outcome = "send_failed") =>
        /\ LastEvent(job).level = "warning"
        /\ "error" \notin Levels(job)

\* The profiles the search of the run gave a result with success = true.
SuccessfulOf(j) == {p \in DOMAIN j.results : j.results[p].success}

\* The sum of emails_found over the profiles ps of the results.
RECURSIVE SumFound(_, _)
SumFound(results, ps) ==
    IF ps = {} THEN 0
    ELSE LET p == CHOOSE q \in ps : TRUE IN
         results[p].emails_found + SumFound(results, ps \ {p})

\* C22: once the loop over the results of a run is over, its summary says
\* s/t with t the number of profiles searched and s the number of results
\* with success = true, and a total that is the sum of emails_found over
\* the successful profiles; the current_emails_found of every successful
\* profile is the emails_found the search returned for it.
C22_SummaryCountsAndCurrent ==
    (RecordingOver(job) /\ job.pc # "record") =>
        /\ search_message(job) =
              [successful_profiles |-> Cardinality(SuccessfulOf(job)),
               results |-> Len(job.active),
               total_emails |-> SumFound(job.results, SuccessfulOf(job))]
        /\ \A p \in SuccessfulOf(job) :
              store[p].current_emails_found = job.results[p].emails_found

\* C22 happens: two profiles were searched, both succeeded with two mails
\* each, and the run has returned after sending the report.
C22_Witness ==
    /\ job.pc = "done"
    /\ job.result.outcome = "sent"
    /\ search_message(job) = [successful_profiles |-> 2, results |-> 2, total_emails |-> 4]
    /\ \A p \in Profiles : store[p].current_emails_found = 2

\* The places of the status events of a run that have the tag.
Places(j, tag) == {i \in DOMAIN j.events : j.events[i].tag = tag}

\* C23: the status events of a run are emitted in the order of its stages:
\* the starting event is emitted before the search is made, the
\* generating-report event when update_profile_execution has been called
\* for every successful profile and is called no more, the sending event
\* after the report-generated event, and the sent or send-failed event is
\* the last event and ends the run.
C23_EventsInPipelineOrder ==
    job.pc # "idle" =>
        /\ job.calls.connects > 0 => Places(job, "starting") # {}
        /\ Places(job, "generating") # {} =>
              /\ RecordingOver(job) /\ job.pc # "record"
              /\ \A p \in SuccessfulOf(job) : TimesRecorded(job, p) = 1
              /\ \A i \in Places(job, "generating") :
                    \E k \in Places(job, "starting") : k < i
        /\ \A i \in Places(job, "sending") :
              \E k \in Places(job, "generated") : k < i
        /\ \A i \in Places(job, "sent") \cup Places(job, "send_failed") :
              /\ i = Len(job.events)
              /\ job.pc = "done"
              /\ \E k \in Places(job, "sending") : k < i

\* C23 happens: a run recorded two profiles, made the report and failed to
\* send it, with its five status events.
C23_Witness ==
    /\ job.pc = "done"
    /\ job.calls.recorded = <<"p1", "p2">>
    /\ [i \in DOMAIN job.events |-> job.events[i].tag] =
          <<"starting", "generating", "generated", "sending", "send_failed">>

\* The sum of the emails_found of a sequence of executions.
RECURSIVE SumRecorded(_)
SumRecorded(executions) ==
    IF executions = <<>> THEN 0
    ELSE Head(executions).emails_found + SumRecorded(Tail(executions))

\* The statistics of profile p in profile_stats.json, ZeroStats when the
\* file has none.
StatsOf(p) == IF p \in DOMAIN disk.stats THEN disk.stats[p] ELSE ZeroStats

\* C24: after n calls of update_profile_execution for a profile, none of
\* them made while another call was made, current_emails_found is the
\* count of the last call, total_emails_accumulated the sum of the counts
\* of all n, total_executions is n, and last_executed of the profile is set.
C24_SequentialCallsAddUp ==
    CallsInFlight = 0 =>
        \A p \in Profiles :
            LET n == Len(completed[p]) IN
            n > 0 =>
                /\ StatsOf(p).current_emails_found = completed[p][n].emails_found
                /\ StatsOf(p).total_emails_accumulated = SumRecorded(completed[p])
                /\ StatsOf(p).total_executions = n
                /\ disk.profiles[p].last_executed = completed[p][n].timestamp
                /\ disk.profiles[p].last_executed # 0

\* C24 happens: two calls for a profile, with counts 2 and then 0.
C24_Witness ==
    /\ CallsInFlight = 0
    /\ Len(completed["p1"]) = 2
    /\ completed["p1"][1].emails_found = 2
    /\ completed["p1"][2].emails_found = 0
    /\ StatsOf("p1").current_emails_found = 0
    /\ StatsOf("p1").total_emails_accumulated = 2

\* The last n elements of a sequence, all of them when it has fewer.
LastOf(s, n) == IF Len(s) > n THEN SubSeq(s, Len(s) - n + 1, Len(s)) ELSE s

\* C25: after n calls of update_profile_execution for a profile, none of
\* them made while another call was made, its history has min(n, 50)
\* entries, which are the last min(n, 50) executions in the order in which
\* they were made.
C25_HistoryKeepsLastFifty ==
    CallsInFlight = 0 =>
        \A p \in Profiles :
            /\ Len(StatsOf(p).execution_history) =
                  (IF Len(completed[p]) < 50 THEN Len(completed[p]) ELSE 50)
            /\ StatsOf(p).execution_history = LastOf(completed[p], 50)

\* C25 happens: 51 calls for a profile; its history has 50 entries and
\* begins with the second call.
C25_Witness ==
    /\ CallsInFlight = 0
    /\ Len(completed["p1"]) = 51
    /\ Len(StatsOf("p1").execution_history) = 50
    /\ StatsOf("p1").execution_history[1] = completed["p1"][2]

\* C26: in every state, also when calls of update_profile_execution of two
\* threads overlap, total_emails_accumulated of a profile is the sum of the
\* counts of the calls made for it that have returned, and total_executions
\* their number.
C26_TotalsCountEveryCall ==
    \A p \in Profiles :
        /\ StatsOf(p).total_emails_accumulated = SumRecorded(completed[p])
        /\ StatsOf(p).total_executions = Len(completed[p])

\* The profile at place k of the call is active and has a search_title
\* that is a string and not blank.
Searchable(m, k) ==
    /\ m.profiles[k].is_active
    /\ m.profiles[k].search_title # NotAString
    /\ strip(m.profiles[k].search_title) # ""

\* The call has returned without an exception having come to its outer
\* except.
NoGeneralError(m) ==
    \A p \in DOMAIN m.results : m.results[p].message.text # "Error general"

\* C27: when the SEARCH of the mail server failed for some profiles of a
\* call, the call gives each of them success = false with emails_found 0
\* and every other active profile with a search_title success = true, and
\* it has opened one connection.
C27_SearchFailureIsolated ==
    (mail.pc = "returned" /\ mail.failed # {} /\ NoGeneralError(mail)) =>
        /\ \A p \in mail.failed :
              /\ ~mail.results[p].success
              /\ mail.results[p].emails_found = 0
        /\ \A k \in DOMAIN mail.profiles :
              (Searchable(mail, k) /\ mail.profiles[k].id \notin mail.failed) =>
                  mail.results[mail.profiles[k].id].success
        /\ mail.connects = 1
        /\ mail.opened = 1

\* C28: when a call of search_multiple_profiles has returned, the object
\* holds no connection and every connection that was opened has been
\* closed, once.
C28_ConnectionReleased ==
    /\ mail.closed <= mail.opened
    /\ mail.pc = "returned" =>
          /\ mail.connection = "none"
          /\ mail.closed = mail.opened

\* C29: when the connection of a call was not made, every profile of the
\* call has the same result, with success = false, emails_found 0 and the
\* message of the failed connection; _connect_imap was called once and no
\* SEARCH was sent.
C29_ConnectFailureIsUniform ==
    (mail.pc = "returned" /\ ~mail.success) =>
        /\ DOMAIN mail.results = BatchIdsOf(mail)
        /\ \A p \in DOMAIN mail.results :
              /\ ~mail.results[p].success
              /\ mail.results[p].emails_found = 0
              /\ mail.results[p].message.text = "Error conectando"
        /\ \A p, q \in DOMAIN mail.results : mail.results[p] = mail.results[q]
        /\ mail.connects = 1
        /\ mail.searched = <<>>

\* C29 happens: the login of a call with three profiles was refused.
C29_Witness ==
    /\ mail.pc = "returned"
    /\ ~mail.success
    /\ Len(mail.profiles) = 3
    /\ mail.results["p3"].message = Message("Error conectando", "Error de autenticacion IMAP")

\* The profile at place k of the call has had its turn of the loop.
TurnTaken(m, k) ==
    /\ m.success
    /\ m.profiles[k].id \in DOMAIN m.results
    /\ m.results[m.profiles[k].id].message.text # "Error general"

\* C30: a call returns a result for every profile it was called with and
\* for nothing else; in the loop over the profiles a profile that is not
\* active gets success = false with "Perfil inactivo" and an active one
\* with a blank search_title success = false with "Perfil sin criterio de
\* busqueda", and no SEARCH is sent for either.
C30_OneResultPerProfile ==
    /\ mail.pc = "returned" => DOMAIN mail.results = BatchIdsOf(mail)
    /\ DOMAIN mail.results \subseteq BatchIdsOf(mail)
    /\ \A k \in DOMAIN mail.profiles :
          LET profile == mail.profiles[k] IN
          TurnTaken(mail, k) =>
              /\ ~profile.is_active =>
                    /\ mail.results[profile.id] =
                          Result(FALSE, 0, Message("Perfil inactivo", ""))
                    /\ profile.id \notin Range(mail.searched)
              /\ (profile.is_active /\ strip(profile.search_title) = "") =>
                    /\ mail.results[profile.id] =
                          Result(FALSE, 0, Message("Perfil sin criterio de busqueda", ""))
                    /\ profile.id \notin Range(mail.searched)

\* C30 happens: a call with a profile that is not active, one with a blank
\* search_title and one that was searched has returned.
C30_Witness ==
    /\ mail.pc = "returned"
    /\ Len(mail.profiles) = 3
    /\ mail.results["p1"].message.text = "Perfil inactivo"
    /\ mail.results["p2"].message.text = "Perfil sin criterio de busqueda"
    /\ mail.results["p3"].success
    /\ mail.searched = <<"p3">>

\* ---- the search criteria (CompileSpec) ----

\* The search key the mail server reads from the criteria built last, and
\* the significant words of its title.
CompiledKey == ParseCommand(mail.compiled.criteria, 1, <<>>)

CompiledWords == SignificantWords(split(mail.compiled.search_title))

SubjectKey(lit) == Node("subject", <<>>, lit)

AllOf(words) == Node("and", [k \in DOMAIN words |-> SubjectKey(<<words[k]>>)], <<>>)

SinceKey(day) == Node("since", <<>>, <<strftime(day)>>)

HasWords(msg, words) == \A k \in DOMAIN words : lower(words[k]) \in msg.words

\* C31: for a title with 2 or 3 significant words the criteria is (the full
\* title in the subject OR every significant word in the subject) AND the
\* date; it returns every message since the date whose subject has all the
\* significant words, and none that lacks one of them and the full title.
C31_TwoOrThreeWords ==
    (mail.compiled.criteria # <<>> /\ Len(CompiledWords) \in {2, 3}) =>
        LET key == CompiledKey
            words == CompiledWords IN
        /\ key = Node("and",
                      <<Node("or", <<SubjectKey(mail.compiled.search_title),
                                     AllOf(words)>>, <<>>),
                        SinceKey(mail.compiled.day)>>, <<>>)
        /\ \A msg \in Messages(mail.compiled.search_title) :
              /\ (msg.date >= mail.compiled.day /\ HasWords(msg, words))
                     => Holds(key, msg)
              /\ (~HasWords(msg, words)
                      /\ mail.compiled.search_title \notin msg.phrases)
                     => ~Holds(key, msg)

\* A message with the 3 significant words and other text, without the full
\* title, is returned.
C31_Witness ==
    /\ mail.compiled.criteria # <<>>
    /\ Len(CompiledWords) = 3
    /\ LET key == CompiledKey IN
       \E msg \in Messages(mail.compiled.search_title) :
          /\ "re:" \in msg.words
          /\ msg.phrases = {}
          /\ Holds(key, msg)

\* C32: for a title without a space in it the criteria is the title in the
\* subject AND the date, without OR.
C32_OneWordIsPhraseAndDate ==
    (mail.compiled.criteria # <<>> /\ Len(mail.compiled.search_title) = 1) =>
        CompiledKey =
            Node("and", <<SubjectKey(mail.compiled.search_title),
                          SinceKey(mail.compiled.day)>>, <<>>)

C32_Witness ==
    /\ mail.compiled.criteria # <<>>
    /\ mail.compiled.search_title = <<"Ao">>
    /\ LET key == CompiledKey IN
       \E msg \in Messages(mail.compiled.search_title) : Holds(key, msg)

\* The alternatives joined with OR in a search key.
RECURSIVE Alternatives(_)
Alternatives(node) ==
    IF node.op = "or" THEN Alternatives(node.args[1]) \o Alternatives(node.args[2])
    ELSE <<node>>

\* C33: with more than 3 significant words the criteria is the OR of the
\* full title, every significant word and the first 3 significant words,
\* AND the date; with 3 or fewer there is no third alternative.
C33_ThirdAlternativeAboveThree ==
    mail.compiled.criteria # <<>> =>
        LET key == CompiledKey
            words == CompiledWords IN
        IF Len(words) > 3 THEN
            /\ key.op = "and"
            /\ Len(key.args) = 2
            /\ Alternatives(key.args[1]) =
                   <<SubjectKey(mail.compiled.search_title), AllOf(words),
                     AllOf(SubSeq(words, 1, 3))>>
            /\ key.args[2] = SinceKey(mail.compiled.day)
        ELSE
            \/ key.op # "and"
            \/ Len(Alternatives(key.args[1])) <= 2

C33_Witness ==
    /\ mail.compiled.criteria # <<>>
    /\ Len(CompiledWords) > 3
    /\ Len(Alternatives(CompiledKey.args[1])) = 3

C40_FourthWordDoesNotRestrict ==
    (mail.compiled.criteria # <<>> /\ Len(CompiledWords) > 3) =>
        LET key == CompiledKey
            key_words == SubSeq(CompiledWords, 1, 3) IN
        \A msg \in Messages(mail.compiled.search_title) :
            Holds(key, msg) <=>
                /\ msg.date >= mail.compiled.day
                /\ \/ mail.compiled.search_title \in msg.phrases
                   \/ HasWords(msg, key_words)

\* A message without the 4th significant word is returned.
C40_Witness ==
    /\ mail.compiled.criteria # <<>>
    /\ Len(CompiledWords) > 3
    /\ LET key == CompiledKey
           words == CompiledWords IN
       \E msg \in Messages(mail.compiled.search_title) :
          /\ lower(words[4]) \notin msg.words
          /\ Holds(key, msg)

\* ---- the profiles in the files (StoreSpec) ----

\* C35: whatever profiles were created, renamed, deleted and imported, no
\* two profiles of profiles.json have names that are equal when the case of
\* the letters is left aside.
C35_NamesDifferIgnoringCase ==
    \A p, q \in DOMAIN disk.profiles :
        p # q => lower(disk.profiles[p].name) # lower(disk.profiles[q].name)

\* C36: when no search is being made and no call of
\* update_profile_execution, every record of profile_stats.json is the
\* record of a profile of profiles.json.
C36_StatsBelongToProfiles ==
    (\A c \in Callers : rec[c].pc = "idle") =>
        DOMAIN disk.stats \subseteq DOMAIN disk.profiles

\* C39: when update_profile_execution writes profiles.json, the profiles of
\* the file are the ones that were in it just before, with the same names,
\* and with the same last_executed but for the profile of the call.
C39_RecordChangesOnlyLastExecuted ==
    [][\A c \in Callers :
          (rec[c].pc = "save_profiles" /\ rec'[c].pc = "load_stats") =>
              /\ DOMAIN disk'.profiles = DOMAIN disk.profiles
              /\ \A p \in DOMAIN disk.profiles :
                    /\ disk'.profiles[p].name = disk.profiles[p].name
                    /\ p # rec[c].profile_id =>
                          disk'.profiles[p].last_executed
                              = disk.profiles[p].last_executed]_vars

\* ---- the trigger list after a save and while running (Spec) ----

\* C37: when the save thread of the modal has saved an enabled
\* configuration and its start_scheduler has returned success, the trigger
\* list is the translation of the configuration that was saved.
C37_StartAfterSaveTranslates ==
    [][(saver.pc = "restart" /\ saver.config["enabled"] /\ saver'.pc = "idle"
            /\ last'.ok)
         => IsTranslation(_clean_config(saver.config), jobs')]_vars

\* C38: while is_running of a service object is true the trigger list is
\* not empty.
C38_RunningHasTrigger ==
    \A o \in Objects : is_running[o] => jobs # <<>>

====
